---- MODULE Spec2Model ----
(***************************************************************************)
(* payload-sync: reactive subscription and incremental-delta engine.       *)
(*                                                                         *)
(* The module models the server side of the plugin: the document matcher,  *)
(* the change classifier of the incremental publisher, the subscriptions   *)
(* actor (sessions, dependencies, reverseDependencies), the session and    *)
(* dependency registration code that drives it, the hooks and the three    *)
(* publishers.  Each group of claims is checked under the specification    *)
(* that exercises the code it is about:                                    *)
(*   SpecClassify  the classifier as a function of its inputs              *)
(*   SpecRegistry  registrations, channel open/close, dependency index     *)
(*   SpecFanout    mutations through the hooks and the three publishers    *)
(***************************************************************************)
EXTENDS Naturals, Integers, Sequences, FiniteSets, TLC

VARIABLES
  \* --- classifier harness (SpecClassify)
  classifyIn,          \* the arguments of one classification, or NoCall
  classifyOut,         \* what publishIncrementalUpdates queued for it
  \* --- subscriptions actor state (unnamed/part_008, state)
  sessions,            \* sequence of [clientId, queries]
  dependencies,        \* queryKey -> dependency object, or NoDep
  reverseDependencies, \* collection -> sequence of queryKeys (<<>>: key absent)
  \* --- module state of the server process
  clients,             \* endpoints.ts: the clients Map (ids with a live writer)
  payloadConfig,       \* dependency-tracker.ts: "null" until initialised
  \* --- registration requests in flight (SpecRegistry)
  regs,                \* request id -> its position and locals
  closing,             \* clientId -> how far the abort handler of its channel is
  hist,                \* history: <<client, "closed">> once its channel was closed,
                       \* <<client, "raced">> if a registration of it ran meanwhile
  \* --- mutations and publishers in flight (SpecFanout)
  store,               \* collection documents: id -> document or NoDoc
  muts,                \* mutation id -> request state (hooks, result)
  pubs,                \* mutation id -> state of its publishChanges run
  rpcQueue,            \* the publishers' actor calls, in the order they were issued
  channel,             \* clientId -> sequence of messages written to its writer
  \* --- removeSession calls in flight (SpecRemove)
  removals,            \* clientId -> position and locals of its removeSession call
  \* --- folding deltas into a cached array (SpecFold)
  foldSort,            \* the sort of the query
  foldEngine,          \* which insertion sort Array.prototype.sort runs
  foldHist,            \* history: the cached docs, after each delta folded
  foldLog,             \* history: the deltas folded
  \* --- the client's Views and its view of the server (SpecView)
  viewStore,           \* view-store.ts #views: hash -> View id, 0 for none
  wrappers,            \* View id -> the fields of the PayloadViewWrapper
  consumers,           \* component -> where its usePayloadQuery is
  activeSubscriptions, \* payload-sync.ts activeSubscriptions: hash -> entry
  cacheSubscribers,    \* shared cache: hash -> Views whose callback is subscribed
  cacheUnsubscribers,  \* view-store.ts #cacheUnsubscribers: hash -> View id
  sharedCache,         \* shared cache: hash -> data
  dataCache,           \* payload-sync.ts dataCache: hash -> data
  reqs,                \* the POST /api/query requests made, in order
  sse,                 \* deltas on the event stream, not yet handled
  server,              \* mutations done, and the hashes registered for the client
  invalLog,            \* history: what handling each invalidate delta did
  \* --- the query endpoint's requests (SpecRequest)
  replies,             \* history: each request's body, what it started, its response
  \* --- pure functions applied to drawn inputs (SpecMatch, SpecHash)
  matchRun,            \* a document, two filters and what the matcher answered
  hashRun,             \* the inputs and results of one hashing run
  depsRun,             \* a query and the dependency set extracted from it
  \* --- event-stream requests of one clientId (SpecReopen)
  conns                \* clientId -> its stream requests and their abort listeners

classifyVars == <<classifyIn, classifyOut>>
actorVars    == <<sessions, dependencies, reverseDependencies>>
procVars     == <<clients, payloadConfig>>
regVars      == <<regs, closing, hist>>
fanVars      == <<store, muts, pubs, rpcQueue, channel>>
remVars      == <<removals>>
foldVars     == <<foldSort, foldEngine, foldHist, foldLog>>
viewVars     == <<viewStore, wrappers, consumers, activeSubscriptions, cacheSubscribers,
                  cacheUnsubscribers, sharedCache, dataCache, reqs, sse, server, invalLog>>
pureVars     == <<matchRun, hashRun, depsRun>>
endVars      == <<replies, pureVars, conns>>
extraVars    == <<remVars, foldVars, viewVars, endVars>>
vars == <<classifyIn, classifyOut, sessions, dependencies, reverseDependencies,
          clients, payloadConfig, regs, closing, hist, store, muts, pubs, rpcQueue, channel,
          removals, foldSort, foldEngine, foldHist, foldLog,
          viewStore, wrappers, consumers, activeSubscriptions, cacheSubscribers,
          cacheUnsubscribers, sharedCache, dataCache, reqs, sse, server, invalLog,
          replies, matchRun, hashRun, depsRun, conns>>

(***************************************************************************)
(* Values.  A JavaScript value is a tagged record of one shape.            *)
(***************************************************************************)
Undef    == [t |-> "undef", s |-> "", n |-> 0]
Null     == [t |-> "null",  s |-> "", n |-> 0]
Str(x)   == [t |-> "str",   s |-> x,  n |-> 0]
Num(k)   == [t |-> "num",   s |-> "", n |-> k]
Bool(b)  == [t |-> "bool",  s |-> "", n |-> IF b THEN 1 ELSE 0]
\* a populated relationship: an object whose id is x
Obj(x)   == [t |-> "obj",   s |-> x,  n |-> 0]

Fields == {"id", "name", "project", "assignee", "dueAt"}

\* A document: x says whether there is one (originalDoc may be undefined).
Doc(id, name, project, assignee, dueAt) ==
  [x |-> TRUE,
   f |-> [k \in Fields |->
            CASE k = "id"       -> Str(id)
              [] k = "name"     -> name
              [] k = "project"  -> project
              [] k = "assignee" -> assignee
              [] OTHER          -> dueAt]]
NoDoc == [x |-> FALSE, f |-> [k \in Fields |-> Undef]]

(***************************************************************************)
(* Where clauses.  One shape for every clause:                             *)
(*   k = "undef"   no where at all                                         *)
(*   k = "fields"  an object of field conditions (conds; {} when empty)    *)
(*   k = "and"     { and: args }      k = "or"   { or: args }              *)
(* A condition is one (path, operator, value); op "bare" is a bare value.  *)
(***************************************************************************)
NoWhere      == [k |-> "undef",  args |-> <<>>, conds |-> <<>>]
EmptyWhere   == [k |-> "fields", args |-> <<>>, conds |-> <<>>]
FieldsW(cs)  == [k |-> "fields", args |-> <<>>, conds |-> cs]
AndW(ws)     == [k |-> "and",    args |-> ws,   conds |-> <<>>]
OrW(ws)      == [k |-> "or",     args |-> ws,   conds |-> <<>>]
Cond(p, o, v)    == [path |-> p, op |-> o, val |-> v, vals |-> <<>>]
CondIn(p, o, vs) == [path |-> p, op |-> o, val |-> Undef, vals |-> vs]

\* query-matcher.ts getNestedValue: path.split('.').reduce(...)
RECURSIVE Descend(_, _)
Descend(cur, keys) ==
  IF keys = <<>> THEN cur
  ELSE LET nxt == IF cur.t = "obj" /\ Head(keys) = "id" THEN Str(cur.s) ELSE Undef
       IN Descend(nxt, Tail(keys))

getNestedValue(doc, path) ==
  IF ~doc.x \/ path = <<>> THEN Undef
  ELSE IF Head(path) \in Fields THEN Descend(doc.f[Head(path)], Tail(path))
  ELSE Undef

\* JavaScript === on the modelled values: two distinct objects are never ===
StrictEq(a, b) == a.t # "obj" /\ a = b

compareValues(fieldValue, expectedValue) ==
  IF StrictEq(fieldValue, expectedValue) THEN TRUE
  ELSE IF fieldValue.t = "obj" /\ fieldValue.s # "" /\ expectedValue.t = "str"
       THEN fieldValue.s = expectedValue.s
  ELSE IF fieldValue.t = "str" /\ expectedValue.t = "obj" /\ expectedValue.s # ""
       THEN fieldValue.s = expectedValue.s
  ELSE FALSE

\* ToNumber for the relational operators: NaN for undefined, strings that are
\* not numerals and objects; null is 0.
IsNaN(v) == v.t \in {"undef", "str", "obj"}
NumOf(v) == IF v.t \in {"num", "bool"} THEN v.n ELSE 0
JsLt(a, b)  == ~IsNaN(a) /\ ~IsNaN(b) /\ NumOf(a) <  NumOf(b)
JsLte(a, b) == ~IsNaN(a) /\ ~IsNaN(b) /\ NumOf(a) <= NumOf(b)

\* String.prototype.includes on the model's strings: the names used in the
\* model are pairwise not substrings of one another, "" is in every string.
Includes(a, b) == b = "" \/ a = b
ToLower(a) == a

AnyMatch(fieldValue, vs) ==
  \E i \in 1..Len(vs) : compareValues(fieldValue, vs[i])

\* query-matcher.ts evaluateFieldCondition, for one operator of the condition
evaluateFieldCondition(doc, c) ==
  LET fieldValue == getNestedValue(doc, c.path)
      expected   == c.val
  IN CASE c.op = "bare"       -> compareValues(fieldValue, expected)
       [] c.op = "equals"     -> compareValues(fieldValue, expected)
       [] c.op = "not_equals" -> ~compareValues(fieldValue, expected)
       [] c.op = "in"         -> AnyMatch(fieldValue, c.vals)
       [] c.op = "not_in"     -> ~AnyMatch(fieldValue, c.vals)
       [] c.op = "greater_than"       -> ~JsLte(fieldValue, expected)
       [] c.op = "greater_than_equal" -> ~JsLt(fieldValue, expected)
       [] c.op = "less_than"          -> ~JsLte(expected, fieldValue)
       [] c.op = "less_than_equal"    -> ~JsLt(expected, fieldValue)
       [] c.op = "like"     -> /\ fieldValue.t = "str" /\ expected.t = "str"
                               /\ Includes(ToLower(fieldValue.s), ToLower(expected.s))
       [] c.op = "contains" -> /\ fieldValue.t = "str" /\ expected.t = "str"
                               /\ Includes(fieldValue.s, expected.s)
       [] c.op = "exists"   -> (fieldValue.t \notin {"undef", "null"}) = (expected.n = 1)
       [] OTHER -> FALSE

\* A matcher that treats { or: [...] } as a conjunction.
RECURSIVE evaluateWhereClause_OrAsEvery(_, _)
evaluateWhereClause_OrAsEvery(doc, w) ==
  CASE w.k = "undef" -> TRUE
    [] w.k = "and"   -> \A i \in 1..Len(w.args) : evaluateWhereClause_OrAsEvery(doc, w.args[i])
    [] w.k = "or"    -> \A i \in 1..Len(w.args) : evaluateWhereClause_OrAsEvery(doc, w.args[i])
    [] OTHER         -> \A i \in 1..Len(w.conds) : evaluateFieldCondition(doc, w.conds[i])

\* query-matcher.ts evaluateWhereClause
RECURSIVE evaluateWhereClause(_, _)
evaluateWhereClause(doc, w) ==
  CASE w.k = "undef" -> TRUE
    [] w.k = "and"   -> \A i \in 1..Len(w.args) : evaluateWhereClause(doc, w.args[i])
    [] w.k = "or"    -> \E i \in 1..Len(w.args) : evaluateWhereClause(doc, w.args[i])
    [] OTHER         -> \A i \in 1..Len(w.conds) : evaluateFieldCondition(doc, w.conds[i])

\* query-matcher.ts documentMatchesQuery(doc, subscription)
documentMatchesQuery(doc, params) ==
  IF params.where.k = "undef" \/ (params.where.k = "fields" /\ params.where.conds = <<>>)
  THEN TRUE
  ELSE evaluateWhereClause(doc, params.where)

(***************************************************************************)
(* Populate configurations: a sequence of entries, one per key.            *)
(*   obj     the entry's value is an object (else it is `true`)            *)
(*   nested  the object's own populate, <<>> when it has none              *)
(***************************************************************************)
NoPopulate == <<>>
PopTrue(name)        == [name |-> name, obj |-> FALSE, nested |-> <<>>]
PopNested(name, sub) == [name |-> name, obj |-> TRUE,  nested |-> sub]

Params(w, p) == [where |-> w, populate |-> p]

(***************************************************************************)
(* The change classifier of publishIncrementalUpdates.                     *)
(***************************************************************************)
NoChange == [changeType |-> "none", data |-> NoDoc]
Change(t, d) == [changeType |-> t, data |-> d]

\* A slip the table guards against: a document edited out of the filter is
\* reported as an update of the live document.
ClassifyChange_EditedOutAsUpdate(operation, doc, originalDoc, params) ==
  LET docMatches      == documentMatchesQuery(doc, params)
      originalMatches == IF originalDoc.x THEN documentMatchesQuery(originalDoc, params)
                         ELSE FALSE
  IN CASE operation = "create" ->
            IF docMatches THEN Change("insert", doc) ELSE NoChange
       [] operation = "update" ->
            IF docMatches /\ originalMatches THEN Change("update", doc)
            ELSE IF docMatches /\ ~originalMatches THEN Change("upsert", doc)
            ELSE IF ~docMatches /\ originalMatches THEN Change("update", doc)
            ELSE NoChange
       [] OTHER ->
            IF originalDoc.x /\ documentMatchesQuery(originalDoc, params)
            THEN Change("delete", originalDoc) ELSE NoChange

\* unnamed/part_005 (incremental-publisher) lines 152-182: changeType and
\* relevantDoc for one query of one session.
ClassifyChange(operation, doc, originalDoc, params) ==
  LET docMatches      == documentMatchesQuery(doc, params)
      originalMatches == IF originalDoc.x THEN documentMatchesQuery(originalDoc, params)
                         ELSE FALSE
  IN CASE operation = "create" ->
            IF docMatches THEN Change("insert", doc) ELSE NoChange
       [] operation = "update" ->
            IF docMatches /\ originalMatches THEN Change("update", doc)
            ELSE IF docMatches /\ ~originalMatches THEN Change("upsert", doc)
            ELSE IF ~docMatches /\ originalMatches THEN Change("delete", originalDoc)
            ELSE NoChange
       [] OTHER ->
            IF originalDoc.x /\ documentMatchesQuery(originalDoc, params)
            THEN Change("delete", originalDoc) ELSE NoChange

(***************************************************************************)
(* Collections, schema and the catalogue of queries the model registers.   *)
(***************************************************************************)
Collections == {"tasks", "users", "projects", "workspaces"}

\* The relationship targets of a field, as findFieldInCollection and
\* getRelationshipTargets read them from the collection configs.
SchemaTargets(collection, field) ==
  CASE collection = "tasks" /\ field = "project"        -> {"projects"}
    [] collection = "tasks" /\ field = "author"         -> {"users"}
    [] collection = "tasks" /\ field = "assignee"       -> {"users"}
    [] collection = "projects" /\ field = "workspace"   -> {"workspaces"}
    [] collection = "projects" /\ field = "author"      -> {"users"}
    [] OTHER -> {}

\* dependency-tracker.ts inferCollectionFromField; {} stands for null
inferCollectionFromField(fieldName) ==
  CASE fieldName \in {"assignee", "user", "author", "createdBy", "updatedBy"} -> {"users"}
    [] fieldName = "project"   -> {"projects"}
    [] fieldName = "task"      -> {"tasks"}
    [] fieldName = "workspace" -> {"workspaces"}
    [] OTHER -> {}

\* An extractor that stops at the top level of populate.
extractPopulateDependencies_TopLevel(populate, collection) ==
  UNION { SchemaTargets(collection, populate[i].name) : i \in 1..Len(populate) }

\* schema-dependency-extractor.ts extractPopulateDependencies
RECURSIVE extractPopulateDependencies(_, _)
extractPopulateDependencies(populate, collection) ==
  LET one(e) ==
        LET targets == SchemaTargets(collection, e.name)
        IN targets \cup
           (IF e.obj /\ e.nested # <<>>
            THEN UNION { extractPopulateDependencies(e.nested, t) : t \in targets }
            ELSE {})
  IN UNION { one(populate[i]) : i \in 1..Len(populate) }

\* schema-dependency-extractor.ts extractWhereDependencies
RECURSIVE extractWhereDependencies(_, _)
extractWhereDependencies(where, collection) ==
  IF where.k = "undef" THEN {}
  ELSE (IF where.k \in {"and", "or"}
        THEN UNION { extractWhereDependencies(where.args[i], collection) :
                       i \in 1..Len(where.args) }
        ELSE {})
       \cup UNION { SchemaTargets(collection, Head(where.conds[i].path)) :
                      i \in 1..Len(where.conds) }

\* schema-dependency-extractor.ts extractQueryDependencies, for the query
\* object registerQueryDependencies builds (type 'find')
extractQueryDependencies(collection, params) ==
  {collection}
    \cup extractPopulateDependencies(params.populate, collection)
    \cup extractWhereDependencies(params.where, collection)

\* dependency-tracker.ts extractPopulateDependencies (heuristic fallback)
RECURSIVE heuristicPopulateDependencies(_)
heuristicPopulateDependencies(populate) ==
  UNION { IF ~populate[i].obj THEN inferCollectionFromField(populate[i].name)
          ELSE heuristicPopulateDependencies(populate[i].nested) :
          i \in 1..Len(populate) }

\* dependency-tracker.ts extractWhereDependencies (heuristic fallback)
RECURSIVE heuristicWhereDependencies(_)
heuristicWhereDependencies(where) ==
  IF where.k = "undef" THEN {}
  ELSE (IF where.k \in {"and", "or"}
        THEN UNION { heuristicWhereDependencies(where.args[i]) : i \in 1..Len(where.args) }
        ELSE {})
       \cup UNION { IF Len(where.conds[i].path) > 1
                    THEN inferCollectionFromField(Head(where.conds[i].path))
                    ELSE {} : i \in 1..Len(where.conds) }

\* dependency-tracker.ts extractDependencies
extractDependencies(collection, params) ==
  {collection}
    \cup heuristicPopulateDependencies(params.populate)
    \cup heuristicWhereDependencies(params.where)

\* The queries of the model.  createQueryHash gives equal keys only to queries
\* with equal type, collection and parameters, so a key names its query.
QueryKeys == {"qA", "qB", "qC", "qD", "qN"}

QueryOf(qk) ==
  CASE qk = "qA" -> [type |-> "find", collection |-> "tasks",
                     params |-> Params(FieldsW(<<Cond(<<"project">>, "equals", Str("p1"))>>),
                                       <<PopTrue("assignee")>>)]
    [] qk = "qB" -> [type |-> "find", collection |-> "tasks",
                     params |-> Params(NoWhere, NoPopulate)]
    [] qk = "qC" -> [type |-> "find", collection |-> "tasks",
                     params |-> Params(NoWhere, <<PopTrue("user")>>)]
    [] qk = "qD" -> [type |-> "find", collection |-> "projects",
                     params |-> Params(FieldsW(<<Cond(<<"workspace", "id">>, "equals", Str("w1"))>>),
                                       <<PopNested("author", <<>>)>>)]
    [] qk = "qM" -> [type |-> "count", collection |-> "tasks",
                     params |-> Params(FieldsW(<<Cond(<<"project">>, "equals", Str("p1"))>>),
                                       NoPopulate)]
    \* findByID of task t1: the endpoint passes no id to subscribeToQuery
    \* (endpoints.ts 147-165), so the registered params hold none
    [] qk = "qI" -> [type |-> "findByID", collection |-> "tasks",
                     params |-> Params(NoWhere, NoPopulate)]
    [] OTHER     -> [type |-> "count", collection |-> "tasks",
                     params |-> Params(NoWhere, NoPopulate)]

(***************************************************************************)
(* The subscriptions actor: each action runs atomically on the state.      *)
(* A session is [clientId, queries]; a query entry is [queryKey,           *)
(* queryType], its collection and params being those of QueryOf(queryKey). *)
(***************************************************************************)
ClientIds == {"c1", "c2"}
NoDep == [collection |-> "", dependencies |-> {}]

Range(seq) == { seq[i] : i \in 1..Len(seq) }
IndexOf(seq, P(_)) ==
  IF \E i \in 1..Len(seq) : P(seq[i])
  THEN CHOOSE i \in 1..Len(seq) : P(seq[i]) /\ \A j \in 1..(i - 1) : ~P(seq[j])
  ELSE 0

\* getSession: the session of clientId, or none (index 0)
SessionIndex(ss, clientId) == IndexOf(ss, LAMBDA e : e.clientId = clientId)
HasSession(ss, clientId) == SessionIndex(ss, clientId) # 0
QueriesOf(ss, clientId) ==
  IF HasSession(ss, clientId) THEN ss[SessionIndex(ss, clientId)].queries ELSE <<>>
KeysOf(ss, clientId) == { q.queryKey : q \in Range(QueriesOf(ss, clientId)) }
Holders(ss, qk) == { c \in ClientIds : qk \in KeysOf(ss, c) }

\* actions.addSession
addSession(ss, clientId, session) ==
  LET index == SessionIndex(ss, clientId)
  IN IF index # 0 THEN [ss EXCEPT ![index] = session] ELSE Append(ss, session)

\* actions.deleteSession
deleteSession(ss, clientId) == SelectSeq(ss, LAMBDA e : e.clientId # clientId)

\* A slip in the upsert: the query is pushed even when its key is present.
addQueryToSession_AlwaysPush(ss, clientId, query) ==
  LET index == SessionIndex(ss, clientId)
  IN IF index = 0 THEN ss
     ELSE [ss EXCEPT ![index].queries = Append(@, query)]

\* actions.addQueryToSession
addQueryToSession(ss, clientId, query) ==
  LET index == SessionIndex(ss, clientId)
  IN IF index = 0 THEN ss
     ELSE LET queries       == ss[index].queries
              existingIndex == IndexOf(queries, LAMBDA q : q.queryKey = query.queryKey)
          IN IF existingIndex # 0
             THEN [ss EXCEPT ![index].queries[existingIndex] = query]
             ELSE [ss EXCEPT ![index].queries = Append(@, query)]

\* actions.addDependencies
addDependencies(deps, queryKey, dependencyObject) ==
  [deps EXCEPT ![queryKey] = dependencyObject]

\* actions.addReverseDependencies
addReverseDependencies(rev, queryKey, depSet) ==
  [c \in Collections |->
     IF c \in depSet /\ queryKey \notin Range(rev[c]) THEN Append(rev[c], queryKey)
     ELSE rev[c]]

\* actions.removeDependencies: the new reverseDependencies and dependencies
removeReverse(deps, rev, queryKey) ==
  IF deps[queryKey] = NoDep THEN rev
  ELSE [c \in Collections |->
          IF c \in deps[queryKey].dependencies
          THEN SelectSeq(rev[c], LAMBDA qk : qk # queryKey)
          ELSE rev[c]]
removeForward(deps, queryKey) == [deps EXCEPT ![queryKey] = NoDep]

\* dependency-tracker.ts getQueriesDependingOn
getQueriesDependingOn(rev, collection) == rev[collection]

\* dependency-tracker.ts registerQueryDependencies, up to its first await: the
\* dependency object it is about to store (heuristic while payloadConfig is null)
DependencyObject(config, queryKey) ==
  LET q == QueryOf(queryKey)
  IN [collection   |-> q.collection,
      dependencies |-> IF config = "null" THEN extractDependencies(q.collection, q.params)
                       ELSE extractQueryDependencies(q.collection, q.params)]

(***************************************************************************)
(* Bounds.                                                                 *)
(***************************************************************************)
MaxRegs == 2      \* registration requests in one behaviour of SpecRegistry

RegIds == 1..MaxRegs
\* the queries registered in SpecRegistry
RegKeys == {"qA", "qC", "qN"}

\* found: history, whether the request's addQueryToSession met its queryKey
IdleReg == [pc |-> "idle", clientId |-> "", queryKey |-> "", queryType |-> "",
            dep |-> NoDep, found |-> FALSE]

(***************************************************************************)
(* Initial values of each group of variables.                              *)
(***************************************************************************)
ClassifyIdle == classifyIn = [called |-> FALSE] /\ classifyOut = NoChange
ActorEmpty ==
  /\ sessions = <<>>
  /\ dependencies = [qk \in QueryKeys \cup {"qM", "qI"} |-> NoDep]
  /\ reverseDependencies = [c \in Collections |-> <<>>]
RegIdle ==
  /\ regs = [r \in RegIds |-> IdleReg]
  /\ closing = [c \in ClientIds |-> "no"]
  /\ hist = {}

(***************************************************************************)
(* Channels: the SSE endpoint and its abort handler (endpoints.ts).        *)
(***************************************************************************)
\* payloadSSEEndpoint.handler: clients.set(clientId, client)
Connect(c) ==
  /\ c \notin clients
  /\ closing[c] = "no"
  /\ clients' = clients \cup {c}
  /\ UNCHANGED <<payloadConfig, actorVars, regs, closing, hist, classifyVars, fanVars, extraVars>>

\* abort listener, up to its await: clients.get(clientId) is there
AbortBegin(c) ==
  /\ c \in clients
  /\ closing[c] = "no"
  /\ closing' = [closing EXCEPT ![c] = "pending"]
  /\ hist' = hist \cup {<<c, "closed">>}
              \cup (IF \E r \in RegIds : regs[r].clientId = c /\ regs[r].pc # "done"
                    THEN {<<c, "raced">>} ELSE {})
  /\ UNCHANGED <<procVars, actorVars, regs, classifyVars, fanVars, extraVars>>

\* the actor runs deleteSession(clientId) for the abort listener
AbortDeleteSession(c) ==
  /\ closing[c] = "pending"
  /\ sessions' = deleteSession(sessions, c)
  /\ closing' = [closing EXCEPT ![c] = "deleted"]
  /\ UNCHANGED <<procVars, dependencies, reverseDependencies, regs, hist,
                 classifyVars, fanVars, extraVars>>

\* abort listener after its await: clients.delete(clientId); writer.close()
AbortFinish(c) ==
  /\ closing[c] = "deleted"
  /\ clients' = clients \ {c}
  /\ closing' = [closing EXCEPT ![c] = "no"]
  /\ UNCHANGED <<payloadConfig, actorVars, regs, hist, classifyVars, fanVars, extraVars>>

\* index.ts onInit: initializeDependencyTracker(payload.config)
InitializeDependencyTracker ==
  /\ payloadConfig = "null"
  /\ payloadConfig' = "schema"
  /\ UNCHANGED <<clients, actorVars, regVars, classifyVars, fanVars, extraVars>>

(***************************************************************************)
(* A find/findByID/count request to the query endpoint, as far as it       *)
(* registers: every awaited actor call is one step.                        *)
(*   s1      subscribeToQuery: getSession                                  *)
(*   r1 r2 r3  registerSession: getSession, addSession, addQueryToSession  *)
(*   a1 a2   addQueryToSession: getSession, actor addQueryToSession        *)
(*   d1 d2   registerQueryDependencies: addDependencies,                   *)
(*           addReverseDependencies                                        *)
(***************************************************************************)
RegStep(r, pc) == regs' = [regs EXCEPT ![r].pc = pc]
RegRest == <<procVars, closing, hist, classifyVars, fanVars, extraVars>>

\* endpoints.ts handler lines 80-165: the client is known; subscribeToCount
\* goes straight to registerSession, find and findByID to subscribeToQuery
StartReg(r, c, qk) ==
  /\ regs[r].pc = "idle"
  /\ \A r2 \in RegIds : r2 < r => regs[r2].pc # "idle"
  /\ c \in clients
  /\ regs' = [regs EXCEPT ![r] =
        [pc |-> IF QueryOf(qk).type = "count" THEN "r1" ELSE "s1",
         clientId |-> c, queryKey |-> qk,
         queryType |-> IF QueryOf(qk).type = "count" THEN "count" ELSE "find",
         dep |-> NoDep, found |-> FALSE]]
  /\ hist' = IF closing[c] # "no" THEN hist \cup {<<c, "raced">>} ELSE hist
  /\ UNCHANGED <<actorVars, procVars, closing, classifyVars, fanVars, extraVars>>

\* subscription-manager.ts subscribeToQuery lines 182-190
SubscribeGetSession(r) ==
  /\ regs[r].pc = "s1"
  /\ RegStep(r, IF HasSession(sessions, regs[r].clientId) THEN "a1" ELSE "r1")
  /\ UNCHANGED <<actorVars, RegRest>>

\* registerSession lines 20-24
RegisterGetSession(r) ==
  /\ regs[r].pc = "r1"
  /\ RegStep(r, IF HasSession(sessions, regs[r].clientId) THEN "r3" ELSE "r2")
  /\ UNCHANGED <<actorVars, RegRest>>

\* registerSession lines 24-32: addSession(clientId, { queries: [] })
RegisterAddSession(r) ==
  /\ regs[r].pc = "r2"
  /\ sessions' = addSession(sessions, regs[r].clientId,
                            [clientId |-> regs[r].clientId, queries |-> <<>>])
  /\ RegStep(r, "r3")
  /\ UNCHANGED <<dependencies, reverseDependencies, RegRest>>

\* registerSession lines 34-48: addQueryToSession, then registerQueryDependencies
\* is called (not awaited) and runs up to its first actor call
RegisterAddQuery(r) ==
  /\ regs[r].pc = "r3"
  /\ sessions' = addQueryToSession(sessions, regs[r].clientId,
        [queryKey |-> regs[r].queryKey, queryType |-> regs[r].queryType])
  /\ regs' = [regs EXCEPT ![r].pc = "d1",
                          ![r].dep = DependencyObject(payloadConfig, regs[r].queryKey),
                          ![r].found = regs[r].queryKey \in KeysOf(sessions, regs[r].clientId)]
  /\ UNCHANGED <<dependencies, reverseDependencies, RegRest>>

\* subscription-manager.ts addQueryToSession lines 68-74
AddQueryGetSession(r) ==
  /\ regs[r].pc = "a1"
  /\ RegStep(r, IF HasSession(sessions, regs[r].clientId) THEN "a2" ELSE "lost")
  /\ UNCHANGED <<actorVars, RegRest>>

\* subscription-manager.ts addQueryToSession lines 76-89
AddQueryAddQuery(r) ==
  /\ regs[r].pc = "a2"
  /\ sessions' = addQueryToSession(sessions, regs[r].clientId,
        [queryKey |-> regs[r].queryKey, queryType |-> regs[r].queryType])
  /\ regs' = [regs EXCEPT ![r].pc = "d1",
                          ![r].dep = DependencyObject(payloadConfig, regs[r].queryKey),
                          ![r].found = regs[r].queryKey \in KeysOf(sessions, regs[r].clientId)]
  /\ UNCHANGED <<dependencies, reverseDependencies, RegRest>>

\* registerQueryDependencies: await subscriptions.addDependencies(...)
RegisterDepsForward(r) ==
  /\ regs[r].pc = "d1"
  /\ dependencies' = addDependencies(dependencies, regs[r].queryKey, regs[r].dep)
  /\ RegStep(r, "d2")
  /\ UNCHANGED <<sessions, reverseDependencies, RegRest>>

\* registerQueryDependencies: await subscriptions.addReverseDependencies(...)
RegisterDepsReverse(r) ==
  /\ regs[r].pc = "d2"
  /\ reverseDependencies' =
       addReverseDependencies(reverseDependencies, regs[r].queryKey,
                              regs[r].dep.dependencies)
  /\ RegStep(r, "done")
  /\ UNCHANGED <<sessions, dependencies, RegRest>>

\* dependency-tracker.ts unregisterQueryDependencies(queryKey), called directly
unregisterQueryDependencies(qk) ==
  /\ dependencies[qk] # NoDep
  /\ reverseDependencies' = removeReverse(dependencies, reverseDependencies, qk)
  /\ dependencies' = removeForward(dependencies, qk)
  /\ UNCHANGED <<sessions, procVars, regVars, classifyVars, fanVars, extraVars>>

(***************************************************************************)
(* The values of the client's state (client/view-store.ts and              *)
(* client/payload-sync.ts), and its initial state.                         *)
(***************************************************************************)
MaxViews == 2
MaxMutations == 1
MaxRequests == 3
ViewIds == 1..MaxViews
Consumers == {"k1", "k2"}
TTLs == {1, 2}
MaxTTL == CHOOSE t \in TTLs : \A u \in TTLs : u <= t

\* the queries of the two consumers: the same find, one passing an empty
\* where and its clientId (use-payload-sync.tsx sets query.clientId)
ConsumerQuery(k) ==
  IF k = "k1"
  THEN [type |-> "find", collection |-> "tasks", where |-> "empty", sort |-> "",
        clientId |-> "c1"]
  ELSE [type |-> "find", collection |-> "tasks", where |-> "absent", sort |-> "",
        clientId |-> ""]

\* A fingerprint that tells queries apart by their clientId as well.
createQueryHash_WithClientId(query) ==
  <<query.type, query.collection,
    IF query.where \in {"absent", "empty"} THEN "" ELSE query.where, query.sort,
    query.clientId>>

\* part_002 createQueryHash: type, collection and the params that have a
\* value, where only if it has conditions; clientId is not among them
createQueryHash(query) ==
  <<query.type, query.collection,
    IF query.where \in {"absent", "empty"} THEN "" ELSE query.where, query.sort,
    "">>

Hashes == { createQueryHash(ConsumerQuery(k)) : k \in Consumers }

NoQuery == [type |-> "", collection |-> "", where |-> "absent", sort |-> "", clientId |-> ""]
NoData == [has |-> FALSE, ms |-> {}]
Data(ms) == [has |-> TRUE, ms |-> ms]

createSnapshot(data, error, type) == [data |-> data, error |-> error, type |-> type]
LOADING_SNAPSHOT == createSnapshot(NoData, FALSE, "unknown")

NoTimer == [armed |-> FALSE, delay |-> 0, elapsed |-> 0]
\* zeroFor: history, the time since the last unsubscribe (capped)
NoWrapper ==
  [made |-> FALSE, query |-> NoQuery, ttl |-> 0, subscribers |-> {}, cleanupTimer |-> NoTimer,
   isDestroyed |-> FALSE, snapshot |-> LOADING_SNAPSHOT, zeroFor |-> 0, early |-> {}]
NoSubscription == [owner |-> 0, query |-> NoQuery]

\* wrapper.updateData(data, null, 'complete')
updateData(ws, w, data) ==
  IF ws[w].isDestroyed THEN ws
  ELSE [ws EXCEPT ![w].snapshot = createSnapshot(data, FALSE, "complete")]
\* wrapper.updateError(error)
updateError(ws, w) ==
  IF ws[w].isDestroyed THEN ws
  ELSE [ws EXCEPT ![w].snapshot = createSnapshot(NoData, TRUE, "error")]

\* the callbacks view-store.ts subscribed to the shared cache, called with data
NotifyData(ws, subs, data) ==
  [w \in ViewIds |-> IF w \in subs THEN updateData(ws, w, data)[w] ELSE ws[w]]

\* a consumer: out (not rendered), rendered (it holds the View getView
\* returned), subscribed, or threw (subscribe threw)
IdleConsumer == [pc |-> "out", view |-> 0]

\* a POST /api/query of executeQuery: sent, registered (the server has
\* registered the subscription), answered (it has executed the query), then
\* done or failed at the client; applied is history, whether the result
\* was the snapshot of the View that asked when the promise resolved
Request(w, h, kind) ==
  [by |-> w, hash |-> h, kind |-> kind, stage |-> "sent", data |-> NoData, applied |-> FALSE]
\* the server has registered the subscription of w's initial query and the
\* client has not seen the answer yet
InitialRegistered(rs, w) ==
  \E i \in 1..Len(rs) : rs[i].by = w /\ rs[i].kind = "initial"
                         /\ rs[i].stage \in {"registered", "answered"}

ViewIdle ==
  /\ viewStore = [h \in Hashes |-> 0]
  /\ wrappers = [w \in ViewIds |-> NoWrapper]
  /\ consumers = [k \in Consumers |-> IdleConsumer]
  /\ activeSubscriptions = [h \in Hashes |-> NoSubscription]
  /\ cacheSubscribers = [h \in Hashes |-> {}]
  /\ cacheUnsubscribers = [h \in Hashes |-> 0]
  /\ sharedCache = [h \in Hashes |-> NoData]
  /\ dataCache = [h \in Hashes |-> NoData]
  /\ reqs = <<>>
  /\ sse = <<>>
  /\ server = [done |-> 0, registered |-> {}]
  /\ invalLog = <<>>

(***************************************************************************)
(* subscription-manager.ts removeSession(clientId): the awaited getSession *)
(* is one step, the code up to the awaited deleteSession runs with it, the *)
(* actor's deleteSession is the last step.                                 *)
(*   get       getSession was called                                       *)
(*   del       deleteSession was called                                    *)
(*   returned  the promise resolved                                        *)
(*   threw     the promise rejected                                        *)
(* owned is the set of queryKeys of the session getSession returned,       *)
(* unregistered the queryKeys unregisterQueryDependencies was called with, *)
(* removed whether the actor ran deleteSession for the call.               *)
(***************************************************************************)
IdleRemoval == [pc |-> "idle", owned |-> {}, unregistered |-> {}, removed |-> FALSE]
RemIdle == removals = [c \in ClientIds |-> IdleRemoval]
\* no query folded into: an empty array cached, no delta received
FoldIdle ==
  /\ foldSort = "" /\ foldEngine = "binary" /\ foldHist = <<<<>>>> /\ foldLog = <<>>
NotRun == [called |-> FALSE]
PureIdle == matchRun = NotRun /\ hashRun = NotRun /\ depsRun = NotRun
\* the event-stream requests a clientId may make, and no request made yet
MaxConns == 2
ConnIds == 1..MaxConns
NoConn == [opened |-> 0, current |-> 0, stage |-> [g \in ConnIds |-> "none"],
           captured |-> [g \in ConnIds |-> 0], closedWriters |-> {},
           via |-> [conn |-> 0, keys |-> {}], issued |-> {}]
ConnIdle == conns = [c \in ClientIds |-> NoConn]
EndIdle == replies = <<>> /\ PureIdle /\ ConnIdle
ExtraIdle == RemIdle /\ FoldIdle /\ ViewIdle /\ EndIdle
RemRest == <<procVars, regVars, classifyVars, fanVars, foldVars, viewVars, endVars>>

\* A slip: as if the elements of session.queries were [key, value] pairs,
\* the loop unregistering every queryKey of the session.
RemoveLoop_Completes(queries) ==
  [threw |-> FALSE, unregistered |-> { q.queryKey : q \in Range(queries) }]

\* the actor serving removeDependencies for each of keys (part_008 120-135)
RECURSIVE RemoveAll(_, _)
RemoveAll(actor, keys) ==
  IF keys = {} THEN actor
  ELSE LET qk == CHOOSE k \in keys : TRUE
       IN RemoveAll([dependencies |-> removeForward(actor.dependencies, qk),
                     reverseDependencies |-> removeReverse(actor.dependencies,
                                                           actor.reverseDependencies, qk)],
                    keys \ {qk})

\* for (const [queryKey] of session.queries) unregisterQueryDependencies(queryKey):
\* the elements of session.queries are Query objects (part_008 10-23), and
\* destructuring one as an array throws a TypeError, objects not being
\* iterable; so the loop ends normally only over an empty array.
RemoveLoop(queries) ==
  [threw |-> Len(queries) > 0, unregistered |-> {}]

removeSessionCall(c) ==
  /\ removals[c].pc = "idle"
  /\ removals' = [removals EXCEPT ![c].pc = "get"]
  /\ UNCHANGED <<actorVars, RemRest>>

\* getSession answers; lines 101-109
removeSessionGetSession(c) ==
  /\ removals[c].pc = "get"
  /\ removals' = [removals EXCEPT ![c] =
        IF ~HasSession(sessions, c) THEN [@ EXCEPT !.pc = "returned"]
        ELSE LET queries == QueriesOf(sessions, c)
                 owned   == KeysOf(sessions, c)
             IN IF RemoveLoop(queries).threw
                THEN [@ EXCEPT !.pc = "threw", !.owned = owned]
                ELSE [@ EXCEPT !.pc = "del", !.owned = owned,
                               !.unregistered = RemoveLoop(queries).unregistered]]
  /\ UNCHANGED <<actorVars, RemRest>>

\* the actor runs the removeDependencies calls the loop sent, if any, and
\* then deleteSession(clientId); lines 106-111
removeSessionDeleteSession(c) ==
  LET after == RemoveAll([dependencies |-> dependencies,
                          reverseDependencies |-> reverseDependencies],
                         removals[c].unregistered)
  IN /\ removals[c].pc = "del"
     /\ sessions' = deleteSession(sessions, c)
     /\ dependencies' = after.dependencies
     /\ reverseDependencies' = after.reverseDependencies
     /\ removals' = [removals EXCEPT ![c].pc = "returned", ![c].removed = TRUE]
     /\ UNCHANGED RemRest

(***************************************************************************)
(* SpecClassify: the classifier applied to every combination of operation, *)
(* document, original document and filter of the sets below.               *)
(***************************************************************************)
ClassifyProjects  == {Str("p1"), Str("p2"), Obj("p1"), Undef}
ClassifyDueAts    == {Num(1), Num(3), Undef}
ClassifyDocs ==
  { Doc("t1", Str("a"), p, Str("u1"), d) : p \in ClassifyProjects, d \in ClassifyDueAts }
ClassifyWheres ==
  { NoWhere, EmptyWhere,
    FieldsW(<<Cond(<<"project">>, "equals", Str("p1"))>>),
    FieldsW(<<Cond(<<"dueAt">>, "less_than", Num(2))>>),
    FieldsW(<<Cond(<<"project">>, "exists", Bool(FALSE))>>),
    AndW(<<FieldsW(<<Cond(<<"project">>, "equals", Str("p1"))>>),
           FieldsW(<<Cond(<<"dueAt">>, "greater_than_equal", Num(3))>>)>>),
    OrW(<<FieldsW(<<Cond(<<"project">>, "bare", Str("p2"))>>),
          FieldsW(<<CondIn(<<"dueAt">>, "in", <<Num(1)>>)>>)>>) }

\* publishIncrementalUpdates lines 141-198 for one find/findByID query
Classify(operation, doc, originalDoc, where) ==
  /\ ~classifyIn.called
  /\ classifyIn' = [called |-> TRUE, operation |-> operation, doc |-> doc,
                    originalDoc |-> originalDoc, where |-> where]
  /\ classifyOut' = ClassifyChange(operation, doc, originalDoc, Params(where, NoPopulate))
  /\ UNCHANGED <<actorVars, procVars, regVars, fanVars, extraVars>>

(***************************************************************************)
(* Mutations: the documents, the hooks and publishChanges.                 *)
(***************************************************************************)
MaxMuts == 2      \* mutations in one behaviour of SpecFanout
MaxSubs == 2      \* query registrations before the first mutation
MaxFailures == 1  \* actor calls that throw in one behaviour of SpecFanout

MutIds == 1..MaxMuts
DocIds == {"t1", "t2", "u1", "p1"}
CollectionOf(id) ==
  CASE id \in {"t1", "t2"} -> "tasks" [] id = "u1" -> "users" [] OTHER -> "projects"

\* the queries registered in SpecFanout
FanKeys == {"qA", "qB", "qN"}

InitialStore ==
  [id \in DocIds |->
     CASE id = "t1" -> Doc("t1", Str("a"), Str("p1"), Str("u1"), Num(1))
       [] id = "u1" -> Doc("u1", Str("ann"), Undef, Undef, Undef)
       [] id = "p1" -> Doc("p1", Str("web"), Undef, Undef, Undef)
       [] OTHER     -> NoDoc]

\* the documents a create or update may write
WritableDocs ==
  { Doc("t1", Str("a"), Str(p), Str("u1"), Num(1)) : p \in {"p1", "p2"} }
  \cup { Doc("t2", Str("a"), Str("p1"), Str("u1"), Num(1)),
         Doc("u1", Str("bob"), Undef, Undef, Undef),
         Doc("p1", Str("app"), Undef, Undef, Undef) }

RelationFields == {"project", "assignee"}
\* a stored document as an operation returns it: relationships stay ids at
\* depth 0 and are objects at depth 1
AtDepth(doc, depth) ==
  IF depth = 0 \/ ~doc.x THEN doc
  ELSE [doc EXCEPT !.f = [k \in Fields |->
          IF k \in RelationFields /\ doc.f[k].t = "str" THEN Obj(doc.f[k].s)
          ELSE doc.f[k]]]

\* hooks/afterOperation.ts beforeChange: the request context it leaves
beforeChange(context, originalDoc) ==
  IF originalDoc.x THEN originalDoc ELSE context

\* index.ts lines 17-26: the plugin installs beforeChange and afterOperation
\* and nothing else; beforeChange hooks run in create and update operations
\* (with the stored document on update), no hook of the plugin runs before a
\* delete.  The originalDoc found in req.context by afterOperation:
ContextOriginalDoc(operation, stored) ==
  CASE operation = "update" -> beforeChange(NoDoc, stored)
    [] operation = "create" -> beforeChange(NoDoc, NoDoc)
    [] OTHER                -> NoDoc

IdleMut == [pc |-> "idle", collection |-> "", operation |-> "", doc |-> NoDoc,
            originalDoc |-> NoDoc, before |-> NoDoc, result |-> NoDoc,
            failed |-> FALSE, seq |-> 0]
IdleInc == [pc |-> "idle", snap |-> <<>>, si |-> 1, qi |-> 1, ups |-> <<>>,
            pending |-> NoChange]
IdleCross == [pc |-> "idle", keys |-> <<>>, ki |-> 1, affected |-> <<>>,
              order |-> <<>>, ci |-> 1]
IdlePub == [inc |-> IdleInc, cnt |-> "idle", cross |-> IdleCross]

FanIdle ==
  /\ store = InitialStore
  /\ muts = [m \in MutIds |-> IdleMut]
  /\ pubs = [m \in MutIds |-> IdlePub]
  /\ rpcQueue = <<>>
  /\ channel = [c \in ClientIds |-> <<>>]

NoMutationYet == \A m \in MutIds : muts[m].pc = "idle"
Subscribed == UNION { { <<c, qk>> : qk \in KeysOf(sessions, c) } : c \in ClientIds }

\* subscribeToQuery / subscribeToCount run to completion with nothing in
\* between: the session is created if need be, the query upserted, its
\* dependencies stored forward and reverse.
SubscribeAtomic(c, qk) ==
  /\ NoMutationYet
  /\ c \in clients
  /\ Cardinality(Subscribed) < MaxSubs
  /\ <<c, qk>> \notin Subscribed
  /\ LET qtype == IF QueryOf(qk).type = "count" THEN "count" ELSE "find"
         s1    == IF HasSession(sessions, c) THEN sessions
                  ELSE addSession(sessions, c, [clientId |-> c, queries |-> <<>>])
         dep   == DependencyObject(payloadConfig, qk)
     IN /\ sessions' = addQueryToSession(s1, c, [queryKey |-> qk, queryType |-> qtype])
        /\ dependencies' = addDependencies(dependencies, qk, dep)
        /\ reverseDependencies' =
             addReverseDependencies(reverseDependencies, qk, dep.dependencies)
  /\ UNCHANGED <<procVars, regVars, classifyVars, fanVars, extraVars>>

\* a channel opened before the first mutation
ConnectEarly(c) == NoMutationYet /\ Connect(c)

\* A create, update or delete as Payload runs it up to the afterOperation
\* hooks: beforeChange (create, update), then the write.  The caller issues
\* its mutations one after another, each when the one before has returned.
PayloadOperation(m, operation, id, data, depth) ==
  /\ muts[m].pc = "idle"
  /\ \A m2 \in MutIds : m2 < m => muts[m2].pc = "returned"
  /\ CASE operation = "create" -> ~store[id].x /\ data.f["id"] = Str(id)
       [] operation = "update" -> store[id].x /\ data.f["id"] = Str(id)
       [] OTHER                -> store[id].x /\ data = store[id]
  /\ depth = 1 => CollectionOf(id) = "tasks" /\ operation = "update"
  /\ store' = [store EXCEPT ![id] = IF operation = "delete" THEN NoDoc ELSE data]
  /\ muts' = [muts EXCEPT ![m] =
       [IdleMut EXCEPT !.pc = "written", !.collection = CollectionOf(id),
                       !.operation = operation, !.doc = AtDepth(data, depth),
                       !.originalDoc = ContextOriginalDoc(operation, store[id]),
                       !.before = store[id]]]
  /\ UNCHANGED <<pubs, rpcQueue, channel, actorVars, procVars, regVars, classifyVars, extraVars>>

Rpc(m, path) == [m |-> m, path |-> path]
IncFinished(p)   == p.inc.pc \in {"done", "failed"}
CntFinished(p)   == p.cnt \in {"done", "failed"}
CrossFinished(p) == p.cross.pc \in {"done", "failed"}
\* Promise.allSettled of the three publishers has settled
PublishSettled(p) == IncFinished(p) /\ CntFinished(p) /\ CrossFinished(p)
PublishStarted(m) ==
  [inc |-> [IdleInc EXCEPT !.pc = "rpc"], cnt |-> "rpc",
   cross |-> [IdleCross EXCEPT !.pc = "keys"]]
ReturnedCount == Cardinality({ m \in MutIds : muts[m].seq > 0 })

\* A hook that waits for the fan-out and lets its failure fail the operation.
afterOperation_Awaiting(m) ==
  \/ /\ muts[m].pc = "written"
     /\ pubs' = [pubs EXCEPT ![m] = PublishStarted(m)]
     /\ rpcQueue' = rpcQueue \o <<Rpc(m, "inc"), Rpc(m, "cnt"), Rpc(m, "cross")>>
     /\ muts' = [muts EXCEPT ![m].pc = "awaiting"]
     /\ UNCHANGED <<store, channel, actorVars, procVars, regVars, classifyVars, extraVars>>
  \/ /\ muts[m].pc = "awaiting"
     /\ PublishSettled(pubs[m])
     /\ LET bad == "failed" \in {pubs[m].inc.pc, pubs[m].cnt, pubs[m].cross.pc}
        IN muts' = [muts EXCEPT ![m].pc = "returned", ![m].seq = ReturnedCount + 1,
                                ![m].failed = bad,
                                ![m].result = IF bad THEN NoDoc ELSE muts[m].doc]
     /\ UNCHANGED <<store, pubs, rpcQueue, channel, actorVars, procVars, regVars,
                    classifyVars, extraVars>>

\* hooks/afterOperation.ts afterOperation for create/update/delete: it calls
\* publishChanges, which runs the three publishers up to their first actor
\* call, and returns result without awaiting it.
afterOperation(m) ==
  /\ muts[m].pc = "written"
  /\ pubs' = [pubs EXCEPT ![m] = PublishStarted(m)]
  /\ rpcQueue' = rpcQueue \o <<Rpc(m, "inc"), Rpc(m, "cnt"), Rpc(m, "cross")>>
  /\ muts' = [muts EXCEPT ![m].pc = "returned", ![m].seq = ReturnedCount + 1,
                          ![m].result = muts[m].doc]
  /\ UNCHANGED <<store, channel, actorVars, procVars, regVars, classifyVars, extraVars>>

(***************************************************************************)
(* The three publishers.  Every awaited actor call is served from the head *)
(* of rpcQueue, and the caller runs on to its next await in the same step. *)
(***************************************************************************)
Update(queryKey, changeType, data) ==
  [queryKey |-> queryKey, changeType |-> changeType, data |-> data]
Msg(type, updates, m) == [type |-> type, updates |-> updates, m |-> m]

\* client.writer.write(...) when clients.get(clientId) is there
Write(chan, clientId, msg) ==
  IF clientId \in clients THEN [chan EXCEPT ![clientId] = Append(@, msg)] ELSE chan

\* subscription-manager.ts getSessionsForCollection, on the actor's sessions
getSessionsForCollection(ss, collection) ==
  SelectSeq(ss, LAMBDA s :
    \E q \in Range(s.queries) : QueryOf(q.queryKey).collection = collection)

\* subscription-manager.ts getSessionsForQuery
getSessionsForQuery(ss, queryKey) ==
  SelectSeq(ss, LAMBDA s : \E q \in Range(s.queries) : q.queryKey = queryKey)

\* incremental-publisher isFieldPopulated for a top-level field
isFieldPopulated(doc, fieldPath) ==
  LET fieldValue == getNestedValue(doc, <<fieldPath>>)
  IN fieldValue.t = "obj"

\* incremental-publisher needsPopulation
needsPopulation(doc, populateConfig) ==
  \E i \in 1..Len(populateConfig) : ~isFieldPopulated(doc, populateConfig[i].name)

\* populateDocument stops at req.payload.findByID
PopulateYields(change, params) ==
  /\ change.changeType # "delete"
  /\ params.populate # NoPopulate
  /\ needsPopulation(change.data, params.populate)

\* publishIncrementalUpdates from query qi of session si on, until the loops
\* end or populateDocument awaits findByID: the path's state and the channels
RECURSIVE IncRun(_, _, _, _, _, _)
IncRun(m, snap, si, qi, ups, chan) ==
  IF si > Len(snap)
  THEN [inc |-> [IdleInc EXCEPT !.pc = "done"], chan |-> chan]
  ELSE
    LET session == snap[si]
    IN IF qi > Len(session.queries)
       THEN IncRun(m, snap, si + 1, 1, <<>>,
                   IF Len(ups) > 0
                   THEN Write(chan, session.clientId, Msg("incremental_updates", ups, m))
                   ELSE chan)
       ELSE
         LET entry == session.queries[qi]
             query == QueryOf(entry.queryKey)
         IN IF \/ query.collection # muts[m].collection
               \/ entry.queryType \notin {"find", "findByID"}
            THEN IncRun(m, snap, si, qi + 1, ups, chan)
            ELSE
              LET change == ClassifyChange(muts[m].operation, muts[m].doc,
                                           muts[m].originalDoc, query.params)
              IN IF change.changeType = "none"
                 THEN IncRun(m, snap, si, qi + 1, ups, chan)
                 ELSE IF PopulateYields(change, query.params)
                 THEN [inc |-> [pc |-> "populate", snap |-> snap, si |-> si, qi |-> qi,
                                ups |-> ups,
                                pending |-> Update(entry.queryKey, change.changeType,
                                                   change.data)],
                       chan |-> chan]
                 ELSE IncRun(m, snap, si, qi + 1,
                             Append(ups, Update(entry.queryKey, change.changeType,
                                                change.data)), chan)

HeadIs(m, path) == rpcQueue # <<>> /\ Head(rpcQueue) = Rpc(m, path)
Failures ==
  Cardinality({ <<m, path>> \in MutIds \X {"inc", "cnt", "cross"} :
                  CASE path = "inc" -> pubs[m].inc.pc = "failed"
                    [] path = "cnt" -> pubs[m].cnt = "failed"
                    [] OTHER        -> pubs[m].cross.pc = "failed" })
\* an actor call answers (ok) or throws
Outcome(ok) == ok \/ Failures < MaxFailures

\* A publisher that ends the whole publishChanges run when its first call
\* throws.
ServeInc_FailFast(m, ok) ==
  /\ Outcome(ok)
  /\ HeadIs(m, "inc")
  /\ pubs[m].inc.pc = "rpc"
  /\ IF ~ok
     THEN /\ pubs' = [pubs EXCEPT ![m].inc.pc = "failed", ![m].cnt = "failed",
                                  ![m].cross.pc = "failed"]
          /\ rpcQueue' = SelectSeq(rpcQueue, LAMBDA c : c.m # m)
          /\ UNCHANGED channel
     ELSE LET run == IncRun(m, getSessionsForCollection(sessions, muts[m].collection),
                            1, 1, <<>>, channel)
          IN /\ pubs' = [pubs EXCEPT ![m].inc = run.inc]
             /\ channel' = run.chan
             /\ rpcQueue' = Tail(rpcQueue)
  /\ UNCHANGED <<store, muts, actorVars, procVars, regVars, classifyVars, extraVars>>

\* publishIncrementalUpdates: getSessionsForCollection answers (or throws,
\* which the outer try/catch logs) and the loops start
ServeInc(m, ok) ==
  /\ Outcome(ok)
  /\ HeadIs(m, "inc")
  /\ pubs[m].inc.pc = "rpc"
  /\ rpcQueue' = Tail(rpcQueue)
  /\ IF ~ok
     THEN /\ pubs' = [pubs EXCEPT ![m].inc.pc = "failed"]
          /\ UNCHANGED channel
     ELSE LET run == IncRun(m, getSessionsForCollection(sessions, muts[m].collection),
                            1, 1, <<>>, channel)
          IN /\ pubs' = [pubs EXCEPT ![m].inc = run.inc]
             /\ channel' = run.chan
  /\ UNCHANGED <<store, muts, actorVars, procVars, regVars, classifyVars, extraVars>>

\* A populateDocument whose failure loses the delta it was called for.
PopulateReturn_DropsOnFailure(m, ok) ==
  /\ pubs[m].inc.pc = "populate"
  /\ LET p        == pubs[m].inc
         id       == p.pending.data.f["id"].s
         run      == IncRun(m, p.snap, p.si, p.qi + 1,
                            IF ok /\ store[id].x
                            THEN Append(p.ups, [p.pending EXCEPT !.data = AtDepth(store[id], 1)])
                            ELSE p.ups, channel)
     IN /\ pubs' = [pubs EXCEPT ![m].inc = run.inc]
        /\ channel' = run.chan
  /\ UNCHANGED <<store, muts, rpcQueue, actorVars, procVars, regVars, classifyVars, extraVars>>

\* populateDocument: findByID answers with the stored document populated, or
\* throws (the document is gone, the database fails) and the catch returns
\* the document as it was; the loops go on
PopulateReturn(m, ok) ==
  /\ pubs[m].inc.pc = "populate"
  /\ LET p        == pubs[m].inc
         id       == p.pending.data.f["id"].s
         finalDoc == IF ok /\ store[id].x THEN AtDepth(store[id], 1) ELSE p.pending.data
         run      == IncRun(m, p.snap, p.si, p.qi + 1,
                            Append(p.ups, [p.pending EXCEPT !.data = finalDoc]), channel)
     IN /\ pubs' = [pubs EXCEPT ![m].inc = run.inc]
        /\ channel' = run.chan
  /\ UNCHANGED <<store, muts, rpcQueue, actorVars, procVars, regVars, classifyVars, extraVars>>

\* publishCountUpdates after getSessionsForCollection: the channels
\* A count publisher that invalidates only the counts whose filter the
\* written document matches.
RECURSIVE CntRun_MatchingOnly(_, _, _, _)
CntRun_MatchingOnly(m, snap, si, chan) ==
  IF si > Len(snap) THEN chan
  ELSE LET session == snap[si]
           counts  == SelectSeq(session.queries, LAMBDA q :
                        /\ QueryOf(q.queryKey).collection = muts[m].collection
                        /\ q.queryType = "count"
                        /\ documentMatchesQuery(muts[m].doc, QueryOf(q.queryKey).params))
           ups     == [i \in 1..Len(counts) |->
                         Update(counts[i].queryKey, "count_invalidated", NoDoc)]
       IN CntRun_MatchingOnly(m, snap, si + 1,
                 IF Len(ups) > 0
                 THEN Write(chan, session.clientId, Msg("count_updates", ups, m))
                 ELSE chan)

\* A count publisher that gives up at the first session without a channel.
RECURSIVE CntRun_StopsAtMissing(_, _, _, _)
CntRun_StopsAtMissing(m, snap, si, chan) ==
  IF si > Len(snap) THEN chan
  ELSE LET session == snap[si]
           counts  == SelectSeq(session.queries, LAMBDA q :
                        /\ QueryOf(q.queryKey).collection = muts[m].collection
                        /\ q.queryType = "count")
           ups     == [i \in 1..Len(counts) |->
                         Update(counts[i].queryKey, "count_invalidated", NoDoc)]
       IN IF Len(ups) > 0 /\ session.clientId \notin clients THEN chan
          ELSE CntRun_StopsAtMissing(m, snap, si + 1,
                 IF Len(ups) > 0
                 THEN Write(chan, session.clientId, Msg("count_updates", ups, m))
                 ELSE chan)

\* part_004 publishCountUpdates, the loop over the sessions (34-75)
RECURSIVE CntRun(_, _, _, _)
CntRun(m, snap, si, chan) ==
  IF si > Len(snap) THEN chan
  ELSE LET session == snap[si]
           counts  == SelectSeq(session.queries, LAMBDA q :
                        /\ QueryOf(q.queryKey).collection = muts[m].collection
                        /\ q.queryType = "count")
           ups     == [i \in 1..Len(counts) |->
                         Update(counts[i].queryKey, "count_invalidated", NoDoc)]
       IN CntRun(m, snap, si + 1,
                 IF Len(ups) > 0
                 THEN Write(chan, session.clientId, Msg("count_updates", ups, m))
                 ELSE chan)

\* publishCountUpdates
ServeCnt(m, ok) ==
  /\ Outcome(ok)
  /\ HeadIs(m, "cnt")
  /\ pubs[m].cnt = "rpc"
  /\ rpcQueue' = Tail(rpcQueue)
  /\ IF ~ok
     THEN /\ pubs' = [pubs EXCEPT ![m].cnt = "failed"]
          /\ UNCHANGED channel
     ELSE /\ pubs' = [pubs EXCEPT ![m].cnt = "done"]
          /\ channel' = CntRun(m, getSessionsForCollection(sessions, muts[m].collection),
                               1, channel)
  /\ UNCHANGED <<store, muts, actorVars, procVars, regVars, classifyVars, extraVars>>

\* smart-cross-collection-publisher.ts checkPopulateAffected: the top-level
\* keys of populate against its own field-name table
PopulateFieldCollection(fieldName) ==
  CASE fieldName \in {"assignee", "author", "user", "createdBy", "updatedBy"} -> {"users"}
    [] fieldName = "project"   -> {"projects"}
    [] fieldName = "task"      -> {"tasks"}
    [] fieldName = "workspace" -> {"workspaces"}
    [] OTHER -> {}

\* A reference check that never finds a populated relationship.
checkPopulateAffected_NeverAffected(query, changedCollection) == FALSE

checkPopulateAffected(query, changedCollection) ==
  /\ query.params.populate # NoPopulate
  /\ \E i \in 1..Len(query.params.populate) :
       changedCollection \in PopulateFieldCollection(query.params.populate[i].name)

\* checkWhereClauseAffected's field-name table
WhereFieldCollection(relationField) ==
  CASE relationField \in {"assignee", "author", "user"} -> {"users"}
    [] relationField = "project" -> {"projects"}
    [] OTHER -> {}

\* smart-cross-collection-publisher.ts checkWhereClauseAffected
RECURSIVE checkWhereClauseAffected(_, _)
checkWhereClauseAffected(where, changedCollection) ==
  IF where.k = "undef" THEN FALSE
  ELSE IF where.k \in {"and", "or"}
  THEN \E i \in 1..Len(where.args) :
         checkWhereClauseAffected(where.args[i], changedCollection)
  ELSE \E i \in 1..Len(where.conds) :
         /\ Len(where.conds[i].path) > 1
         /\ changedCollection \in WhereFieldCollection(Head(where.conds[i].path))

\* smart-cross-collection-publisher.ts determineQueryChangeType
determineQueryChangeType(query, changedCollection) ==
  IF /\ query.collection # changedCollection
     /\ query.params.populate # NoPopulate
     /\ checkPopulateAffected(query, changedCollection)
  THEN "invalidate"
  ELSE IF /\ query.collection # changedCollection
          /\ query.params.where.k # "undef"
          /\ checkWhereClauseAffected(query.params.where, changedCollection)
  THEN "invalidate"
  ELSE "none"

Affected(clientId, queryKey, changeType) ==
  [clientId |-> clientId, queryKey |-> queryKey, changeType |-> changeType]

\* the keys of updatesBySession, in insertion order
RECURSIVE ClientOrder(_)
ClientOrder(affected) ==
  IF affected = <<>> THEN <<>>
  ELSE LET first == affected[1].clientId
       IN <<first>> \o ClientOrder(SelectSeq(Tail(affected),
                                             LAMBDA u : u.clientId # first))

\* publishCrossCollectionUpdates step 2 for one queryKey: what it pushes
AffectedBy(m, queryKey) ==
  LET ss   == getSessionsForQuery(sessions, queryKey)
      hits == SelectSeq(ss, LAMBDA s :
                determineQueryChangeType(QueryOf(queryKey), muts[m].collection) # "none")
  IN [i \in 1..Len(hits) |->
        Affected(hits[i].clientId, queryKey,
                 determineQueryChangeType(QueryOf(queryKey), muts[m].collection))]

\* publishCrossCollectionUpdates: getQueriesDependingOn answers; an actor
\* call that throws rejects the promise, which Promise.allSettled absorbs
ServeCrossKeys(m, ok) ==
  /\ Outcome(ok)
  /\ HeadIs(m, "cross")
  /\ pubs[m].cross.pc = "keys"
  /\ LET keys == getQueriesDependingOn(reverseDependencies, muts[m].collection)
     IN IF ~ok
        THEN /\ pubs' = [pubs EXCEPT ![m].cross.pc = "failed"]
             /\ rpcQueue' = Tail(rpcQueue)
        ELSE IF keys = <<>>
        THEN /\ pubs' = [pubs EXCEPT ![m].cross.pc = "done"]
             /\ rpcQueue' = Tail(rpcQueue)
        ELSE /\ pubs' = [pubs EXCEPT ![m].cross = [IdleCross EXCEPT !.pc = "sess",
                                                                   !.keys = keys]]
             /\ rpcQueue' = Append(Tail(rpcQueue), Rpc(m, "cross"))
  /\ UNCHANGED <<store, muts, channel, actorVars, procVars, regVars, classifyVars, extraVars>>

\* step 2: getSessionsForQuery(keys[ki]) answers; after the last key
\* sendCrossCollectionUpdates groups the updates and asks for the first session
ServeCrossSessions(m) ==
  /\ HeadIs(m, "cross")
  /\ pubs[m].cross.pc = "sess"
  /\ LET p        == pubs[m].cross
         affected == p.affected \o AffectedBy(m, p.keys[p.ki])
     IN IF p.ki < Len(p.keys)
        THEN /\ pubs' = [pubs EXCEPT ![m].cross.ki = p.ki + 1,
                                     ![m].cross.affected = affected]
             /\ rpcQueue' = Append(Tail(rpcQueue), Rpc(m, "cross"))
        ELSE IF affected = <<>>
        THEN /\ pubs' = [pubs EXCEPT ![m].cross = [IdleCross EXCEPT !.pc = "done"]]
             /\ rpcQueue' = Tail(rpcQueue)
        ELSE /\ pubs' = [pubs EXCEPT ![m].cross =
                           [IdleCross EXCEPT !.pc = "send", !.affected = affected,
                                             !.order = ClientOrder(affected)]]
             /\ rpcQueue' = Append(Tail(rpcQueue), Rpc(m, "cross"))
  /\ UNCHANGED <<store, muts, channel, actorVars, procVars, regVars, classifyVars, extraVars>>

\* sendCrossCollectionUpdates: getSession(order[ci]) answers and the
\* invalidate updates of that client are written as one message
ServeCrossSend(m) ==
  /\ HeadIs(m, "cross")
  /\ pubs[m].cross.pc = "send"
  /\ LET p        == pubs[m].cross
         clientId == p.order[p.ci]
         mine     == SelectSeq(p.affected, LAMBDA u :
                       u.clientId = clientId /\ u.changeType = "invalidate")
         ups      == [i \in 1..Len(mine) |-> Update(mine[i].queryKey, "invalidate", NoDoc)]
     IN /\ channel' = IF Len(ups) > 0 /\ HasSession(sessions, clientId)
                      THEN Write(channel, clientId, Msg("cross_collection_updates", ups, m))
                      ELSE channel
        /\ IF p.ci < Len(p.order)
           THEN /\ pubs' = [pubs EXCEPT ![m].cross.ci = p.ci + 1]
                /\ rpcQueue' = Append(Tail(rpcQueue), Rpc(m, "cross"))
           ELSE /\ pubs' = [pubs EXCEPT ![m].cross = [IdleCross EXCEPT !.pc = "done"]]
                /\ rpcQueue' = Tail(rpcQueue)
  /\ UNCHANGED <<store, muts, actorVars, procVars, regVars, classifyVars, extraVars>>

(***************************************************************************)
(* The specifications.                                                     *)
(***************************************************************************)
Init ==
  /\ ClassifyIdle /\ ActorEmpty /\ RegIdle /\ FanIdle /\ ExtraIdle
  /\ clients = {}
  /\ payloadConfig = "null"

\* the classifier alone
NextClassify ==
  \E operation \in {"create", "update", "delete"}, doc \in ClassifyDocs,
     originalDoc \in ClassifyDocs \cup {NoDoc}, where \in ClassifyWheres :
       Classify(operation, doc, originalDoc, where)
SpecClassify == Init /\ [][NextClassify]_vars

\* channels, registrations and the dependency index
NextRegistry ==
  \/ \E c \in ClientIds : Connect(c)
  \/ \E c \in ClientIds : AbortBegin(c)
  \/ \E c \in ClientIds : AbortDeleteSession(c)
  \/ \E c \in ClientIds : AbortFinish(c)
  \/ InitializeDependencyTracker
  \/ \E r \in RegIds, c \in ClientIds, qk \in RegKeys : StartReg(r, c, qk)
  \/ \E r \in RegIds : SubscribeGetSession(r)
  \/ \E r \in RegIds : RegisterGetSession(r)
  \/ \E r \in RegIds : RegisterAddSession(r)
  \/ \E r \in RegIds : RegisterAddQuery(r)
  \/ \E r \in RegIds : AddQueryGetSession(r)
  \/ \E r \in RegIds : AddQueryAddQuery(r)
  \/ \E r \in RegIds : RegisterDepsForward(r)
  \/ \E r \in RegIds : RegisterDepsReverse(r)
  \/ \E qk \in RegKeys : unregisterQueryDependencies(qk)
SpecRegistry == Init /\ [][NextRegistry]_vars

\* registrations and removeSession calls, channels staying open
NextRemove ==
  \/ \E c \in ClientIds : Connect(c)
  \/ InitializeDependencyTracker
  \/ \E r \in RegIds, c \in ClientIds, qk \in RegKeys : StartReg(r, c, qk)
  \/ \E r \in RegIds : SubscribeGetSession(r)
  \/ \E r \in RegIds : RegisterGetSession(r)
  \/ \E r \in RegIds : RegisterAddSession(r)
  \/ \E r \in RegIds : RegisterAddQuery(r)
  \/ \E r \in RegIds : AddQueryGetSession(r)
  \/ \E r \in RegIds : AddQueryAddQuery(r)
  \/ \E r \in RegIds : RegisterDepsForward(r)
  \/ \E r \in RegIds : RegisterDepsReverse(r)
  \/ \E c \in ClientIds : removeSessionCall(c)
  \/ \E c \in ClientIds : removeSessionGetSession(c)
  \/ \E c \in ClientIds : removeSessionDeleteSession(c)
SpecRemove == Init /\ [][NextRemove]_vars

\* registrations, and sessions removed either way: by the abort listener of
\* a channel or by removeSession; the schema is loaded from the start
InitLive ==
  /\ ClassifyIdle /\ ActorEmpty /\ RegIdle /\ FanIdle /\ ExtraIdle
  /\ clients = {}
  /\ payloadConfig = "schema"
LiveKeys == {"qA"}
NextLive ==
  \/ \E c \in ClientIds : Connect(c)
  \/ \E c \in ClientIds : AbortBegin(c)
  \/ \E c \in ClientIds : AbortDeleteSession(c)
  \/ \E c \in ClientIds : AbortFinish(c)
  \/ \E r \in RegIds, c \in ClientIds, qk \in LiveKeys : StartReg(r, c, qk)
  \/ \E r \in RegIds : SubscribeGetSession(r)
  \/ \E r \in RegIds : RegisterGetSession(r)
  \/ \E r \in RegIds : RegisterAddSession(r)
  \/ \E r \in RegIds : RegisterAddQuery(r)
  \/ \E r \in RegIds : AddQueryGetSession(r)
  \/ \E r \in RegIds : AddQueryAddQuery(r)
  \/ \E r \in RegIds : RegisterDepsForward(r)
  \/ \E r \in RegIds : RegisterDepsReverse(r)
  \/ \E c \in ClientIds : removeSessionCall(c)
  \/ \E c \in ClientIds : removeSessionGetSession(c)
  \/ \E c \in ClientIds : removeSessionDeleteSession(c)
SpecLive == InitLive /\ [][NextLive]_vars

\* mutations and their fan-out over a registry that was filled, with the
\* schema loaded, before the first mutation
InitFanout ==
  /\ ClassifyIdle /\ ActorEmpty /\ RegIdle /\ FanIdle /\ ExtraIdle
  /\ clients = {}
  /\ payloadConfig = "schema"
NextFanout ==
  \/ \E c \in ClientIds : ConnectEarly(c)
  \/ \E c \in ClientIds, qk \in FanKeys : SubscribeAtomic(c, qk)
  \/ \E m \in MutIds, operation \in {"create", "update", "delete"}, id \in DocIds,
        data \in WritableDocs \cup {InitialStore["t1"]}, depth \in {0, 1} :
          PayloadOperation(m, operation, id, data, depth)
  \/ \E m \in MutIds : afterOperation(m)
  \/ \E m \in MutIds, ok \in BOOLEAN : ServeInc(m, ok)
  \/ \E m \in MutIds, ok \in BOOLEAN : PopulateReturn(m, ok)
  \/ \E m \in MutIds, ok \in BOOLEAN : ServeCnt(m, ok)
  \/ \E m \in MutIds, ok \in BOOLEAN : ServeCrossKeys(m, ok)
  \/ \E m \in MutIds : ServeCrossSessions(m)
  \/ \E m \in MutIds : ServeCrossSend(m)
SpecFanout == InitFanout /\ [][NextFanout]_vars

\* the same mutations over a registry of count subscriptions, one with a
\* filter and one without, and a find that populates a relation
CountKeys == {"qA", "qN", "qM"}
NextCount ==
  \/ \E c \in ClientIds : ConnectEarly(c)
  \/ \E c \in ClientIds, qk \in CountKeys : SubscribeAtomic(c, qk)
  \/ \E m \in MutIds, operation \in {"create", "update", "delete"}, id \in DocIds,
        data \in WritableDocs \cup {InitialStore["t1"]} :
          PayloadOperation(m, operation, id, data, 0)
  \/ \E m \in MutIds : afterOperation(m)
  \/ \E m \in MutIds, ok \in BOOLEAN : ServeInc(m, ok)
  \/ \E m \in MutIds, ok \in BOOLEAN : PopulateReturn(m, ok)
  \/ \E m \in MutIds, ok \in BOOLEAN : ServeCnt(m, ok)
  \/ \E m \in MutIds, ok \in BOOLEAN : ServeCrossKeys(m, ok)
  \/ \E m \in MutIds : ServeCrossSessions(m)
  \/ \E m \in MutIds : ServeCrossSend(m)
SpecCount == InitFanout /\ [][NextCount]_vars

\* Mutations while a session is left without a channel. A registration
\* that passed clients.has(clientId) (endpoints.ts 86-88) and whose actor
\* calls ran after the abort listener of the channel leaves such a session
\* (SpecRegistry reaches these states); the live client may close its
\* channel while the publishers run. No actor call throws here.
DropKeys == {"qA", "qN"}
SessionOf(c, qk) ==
  [clientId |-> c,
   queries |-> <<[queryKey |-> qk,
                  queryType |-> IF QueryOf(qk).type = "count" THEN "count" ELSE "find"]>>]
Registered(keys) ==
  [deps |-> [qk \in QueryKeys \cup {"qM", "qI"} |->
               IF \E i \in 1..Len(keys) : keys[i] = qk
               THEN DependencyObject("schema", qk) ELSE NoDep],
   rev  |-> addReverseDependencies(
              addReverseDependencies([c \in Collections |-> <<>>], keys[1],
                                     DependencyObject("schema", keys[1]).dependencies),
              keys[2], DependencyObject("schema", keys[2]).dependencies)]
InitDrop ==
  /\ ClassifyIdle /\ RegIdle /\ FanIdle /\ ExtraIdle
  /\ payloadConfig = "schema"
  /\ \E live \in ClientIds, k1 \in DropKeys, k2 \in DropKeys :
       \E first \in ClientIds : \E second \in ClientIds \ {first} :
         LET key(c) == IF c = live THEN k1 ELSE k2
         IN /\ clients = {live}
            /\ sessions = <<SessionOf(first, key(first)), SessionOf(second, key(second))>>
            /\ dependencies = Registered(<<key(first), key(second)>>).deps
            /\ reverseDependencies = Registered(<<key(first), key(second)>>).rev
NextDrop ==
  \/ \E c \in ClientIds : AbortBegin(c)
  \/ \E c \in ClientIds : AbortDeleteSession(c)
  \/ \E c \in ClientIds : AbortFinish(c)
  \/ \E m \in MutIds, operation \in {"create", "update", "delete"}, id \in DocIds,
        data \in WritableDocs \cup {InitialStore["t1"]} :
          PayloadOperation(m, operation, id, data, 0)
  \/ \E m \in MutIds : afterOperation(m)
  \/ \E m \in MutIds : ServeInc(m, TRUE)
  \/ \E m \in MutIds, ok \in BOOLEAN : PopulateReturn(m, ok)
  \/ \E m \in MutIds : ServeCnt(m, TRUE)
  \/ \E m \in MutIds : ServeCrossKeys(m, TRUE)
  \/ \E m \in MutIds : ServeCrossSessions(m)
  \/ \E m \in MutIds : ServeCrossSend(m)
SpecDrop == InitDrop /\ [][NextDrop]_vars

\* the same mutations over a registry that holds a findByID of task t1 and
\* a find that populates a relation
ByIdKeys == {"qI", "qA"}
NextById ==
  \/ \E c \in ClientIds : ConnectEarly(c)
  \/ \E c \in ClientIds, qk \in ByIdKeys : SubscribeAtomic(c, qk)
  \/ \E m \in MutIds, operation \in {"create", "update", "delete"}, id \in DocIds,
        data \in WritableDocs \cup {InitialStore["t1"]} :
          PayloadOperation(m, operation, id, data, 0)
  \/ \E m \in MutIds : afterOperation(m)
  \/ \E m \in MutIds : ServeInc(m, TRUE)
  \/ \E m \in MutIds, ok \in BOOLEAN : PopulateReturn(m, ok)
  \/ \E m \in MutIds : ServeCnt(m, TRUE)
  \/ \E m \in MutIds : ServeCrossKeys(m, TRUE)
  \/ \E m \in MutIds : ServeCrossSessions(m)
  \/ \E m \in MutIds : ServeCrossSend(m)
SpecById == InitFanout /\ [][NextById]_vars

\* client/payload-sync.ts handleIncrementalUpdates 213-218: what a findByID
\* subscription caches after one update (NoDoc: null)
handleByIdUpdate(cached, update) ==
  IF update.changeType = "delete" THEN NoDoc ELSE update.data
\* the updates for queryKey in the messages, in the order they were written
RECURSIVE UpdatesFor(_, _)
UpdatesFor(msgs, queryKey) ==
  IF msgs = <<>> THEN <<>>
  ELSE (IF Head(msgs).type = "incremental_updates"
        THEN SelectSeq(Head(msgs).updates, LAMBDA u : u.queryKey = queryKey)
        ELSE <<>>) \o UpdatesFor(Tail(msgs), queryKey)
RECURSIVE FoldById(_, _)
FoldById(cached, updates) ==
  IF updates = <<>> THEN cached
  ELSE FoldById(handleByIdUpdate(cached, Head(updates)), Tail(updates))

(***************************************************************************)
(* The query endpoint as its caller sees it (endpoints.ts 44-249): the     *)
(* body of a POST /api/query, the checks made on it before anything is     *)
(* registered or written, and the response.  A body field that is absent   *)
(* is Undef (data: NoDoc).  The publishers that afterOperation starts      *)
(* write to channels only (SpecFanout) and are not run here.               *)
(***************************************************************************)
MaxPosts == 2     \* requests in one behaviour of SpecRequest
RequestTypes == {"find", "count", "create", "update", "delete"}
\* the data of a create (of t2) or of an update (of the document named by id)
RequestDocs == { Doc("t2", Str("b"), Str("p1"), Str("u1"), Num(1)) }
RequestBodies ==
  [type       : {Undef} \cup { Str(t) : t \in RequestTypes },
   collection : {Undef, Str("tasks")},
   clientId   : {Undef, Str("c1"), Str("c2")},
   id         : {Undef, Str("t1")},
   data       : {NoDoc} \cup RequestDocs]

\* JavaScript's !v for the values a body field takes
Falsy(v) ==
  \/ v.t \in {"undef", "null"}
  \/ v = Str("")
  \/ v.t = "num" /\ v.n = 0
  \/ v.t = "bool" /\ v.n = 0

\* A handler that accepts an update without data.
RequestError_UpdateDataOptional(body) ==
  IF Falsy(body.type) \/ Falsy(body.collection) \/ Falsy(body.clientId)
    THEN "Missing required parameters"
  ELSE IF body.clientId.s \notin clients THEN "Client not found"
  ELSE IF body.type = Str("create") /\ ~body.data.x
    THEN "Missing data for create mutation"
  ELSE IF body.type \in {Str("update"), Str("delete")} /\ Falsy(body.id)
    THEN "Missing id for update/delete mutation"
  ELSE ""

\* endpoints.ts 80-101: the message of the Error the handler throws on the
\* body, "" when it throws none
RequestError(body) ==
  IF Falsy(body.type) \/ Falsy(body.collection) \/ Falsy(body.clientId)
    THEN "Missing required parameters"
  ELSE IF body.clientId.s \notin clients THEN "Client not found"
  ELSE IF body.type = Str("create") /\ ~body.data.x
    THEN "Missing data for create mutation"
  ELSE IF body.type \in {Str("update"), Str("delete")} /\ Falsy(body.id)
    THEN "Missing id for update/delete mutation"
  ELSE IF body.type = Str("update") /\ ~body.data.x
    THEN "Missing data for update mutation"
  ELSE ""

\* the queryKeys createQueryHash can give the body: where, sort, limit and
\* populate are not modelled in the body, the key stands for them
KeysFor(body) ==
  { qk \in RegKeys : /\ QueryOf(qk).type = body.type.s
                     /\ QueryOf(qk).collection = body.collection.s }

Reply(body, status, r, m) == [body |-> body, status |-> status, reg |-> r, mut |-> m]
RequestRest == <<pubs, rpcQueue, channel, procVars, closing, hist, classifyVars,
                 remVars, foldVars, viewVars, pureVars, conns>>

\* handler 44-101 and 246-249: a body that fails a check throws before any
\* subscription or operation, and the catch answers 500
RequestRejected(body) ==
  /\ Len(replies) < MaxPosts
  /\ RequestError(body) # ""
  /\ replies' = Append(replies, Reply(body, 500, 0, 0))
  /\ UNCHANGED <<actorVars, regs, store, muts, RequestRest>>

\* handler 103-166: a find or count passes the checks and starts its
\* registration (subscribeToQuery, subscribeToCount)
RequestQuery(body, r, qk) ==
  /\ Len(replies) < MaxPosts
  /\ RequestError(body) = ""
  /\ body.type \in {Str("find"), Str("count")}
  /\ qk \in KeysFor(body)
  /\ regs[r].pc = "idle"
  /\ \A r2 \in RegIds : r2 < r => regs[r2].pc # "idle"
  /\ regs' = [regs EXCEPT ![r] =
        [pc |-> IF body.type.s = "count" THEN "r1" ELSE "s1",
         clientId |-> body.clientId.s, queryKey |-> qk,
         queryType |-> body.type.s, dep |-> NoDep, found |-> FALSE]]
  /\ replies' = Append(replies, Reply(body, 0, r, 0))
  /\ UNCHANGED <<actorVars, store, muts, RequestRest>>

\* the document a create, update or delete of the body is about
TargetOf(body) == IF body.type = Str("create") THEN body.data.f["id"].s ELSE body.id.s
\* Payload runs the operation: a create of a new document, an update or a
\* delete of a stored one
Operable(body) ==
  /\ TargetOf(body) \in DocIds
  /\ store[TargetOf(body)].x = (body.type # Str("create"))

\* handler 103-240: a create, update or delete passes the checks and Payload
\* writes (the afterOperation hook and the response follow)
RequestMutation(body, m) ==
  /\ Len(replies) < MaxPosts
  /\ RequestError(body) = ""
  /\ body.type \in {Str("create"), Str("update"), Str("delete")}
  /\ Operable(body)
  /\ muts[m].pc = "idle"
  /\ \A m2 \in MutIds : m2 < m => muts[m2].pc = "returned"
  /\ LET id      == TargetOf(body)
         written == CASE body.type.s = "create" -> body.data
                      [] body.type.s = "update" ->
                           [body.data EXCEPT !.f["id"] = Str(id)]
                      [] OTHER                  -> store[id]
     IN /\ store' = [store EXCEPT ![id] = IF body.type.s = "delete" THEN NoDoc ELSE written]
        /\ muts' = [muts EXCEPT ![m] =
             [IdleMut EXCEPT !.pc = "written", !.collection = body.collection.s,
                             !.operation = body.type.s, !.doc = written,
                             !.originalDoc = ContextOriginalDoc(body.type.s, store[id]),
                             !.before = store[id]]]
  /\ replies' = Append(replies, Reply(body, 0, 0, m))
  /\ UNCHANGED <<actorVars, regs, RequestRest>>

\* handler 169-249: Payload throws (no such document, a duplicate id) and
\* the catch answers 500
RequestFailed(body) ==
  /\ Len(replies) < MaxPosts
  /\ RequestError(body) = ""
  /\ body.type \in {Str("create"), Str("update"), Str("delete")}
  /\ ~Operable(body)
  /\ replies' = Append(replies, Reply(body, 500, 0, 0))
  /\ UNCHANGED <<actorVars, regs, store, muts, RequestRest>>

\* handler 241-245: the awaited subscription and operation have returned
Respond(i) ==
  /\ i <= Len(replies)
  /\ replies[i].status = 0
  /\ \/ /\ replies[i].reg # 0
        /\ regs[replies[i].reg].pc \in {"d1", "d2", "done", "lost"}
     \/ /\ replies[i].mut # 0
        /\ muts[replies[i].mut].pc = "returned"
  /\ replies' = [replies EXCEPT ![i].status = 200]
  /\ UNCHANGED <<actorVars, regs, store, muts, RequestRest>>

InitRequest ==
  /\ ClassifyIdle /\ ActorEmpty /\ RegIdle /\ FanIdle /\ ExtraIdle
  /\ clients = {"c1"}
  /\ payloadConfig = "schema"

NextRequest ==
  \/ \E body \in RequestBodies : RequestRejected(body)
  \/ \E body \in RequestBodies, r \in RegIds, qk \in RegKeys : RequestQuery(body, r, qk)
  \/ \E body \in RequestBodies, m \in MutIds : RequestMutation(body, m)
  \/ \E body \in RequestBodies : RequestFailed(body)
  \/ \E i \in 1..MaxPosts : Respond(i)
  \/ \E r \in RegIds : SubscribeGetSession(r)
  \/ \E r \in RegIds : RegisterGetSession(r)
  \/ \E r \in RegIds : RegisterAddSession(r)
  \/ \E r \in RegIds : RegisterAddQuery(r)
  \/ \E r \in RegIds : AddQueryGetSession(r)
  \/ \E r \in RegIds : AddQueryAddQuery(r)
  \/ \E r \in RegIds : RegisterDepsForward(r)
  \/ \E r \in RegIds : RegisterDepsReverse(r)
  \/ \E m \in MutIds : afterOperation(m)
SpecRequest == InitRequest /\ [][NextRequest]_vars

(***************************************************************************)
(* The matcher applied to a document and two filters (query-matcher.ts):   *)
(* each filter alone, their conjunction { and: [a, b] } and their          *)
(* disjunction { or: [a, b] }.                                             *)
(***************************************************************************)
MatchDueAts   == {Undef, Num(1), Num(3)}
MatchNames    == {Undef, Str("a")}
MatchAssignees == {Str("u1"), Obj("u1")}
MatchDocs ==
  { Doc("t1", n, Str("p1"), a, d) : n \in MatchNames, a \in MatchAssignees, d \in MatchDueAts }
\* one condition per operator; a document may lack dueAt and name, and
\* assignee.id resolves only in a populated assignee
MatchConds ==
  { Cond(<<"dueAt">>, "equals", Num(1)), Cond(<<"dueAt">>, "not_equals", Num(1)),
    CondIn(<<"dueAt">>, "in", <<Num(1)>>), CondIn(<<"dueAt">>, "not_in", <<Num(1)>>),
    Cond(<<"dueAt">>, "greater_than", Num(2)),
    Cond(<<"dueAt">>, "greater_than_equal", Num(3)),
    Cond(<<"dueAt">>, "less_than", Num(2)), Cond(<<"dueAt">>, "less_than_equal", Num(1)),
    Cond(<<"dueAt">>, "exists", Bool(TRUE)), Cond(<<"dueAt">>, "exists", Bool(FALSE)),
    Cond(<<"name">>, "like", Str("a")), Cond(<<"name">>, "contains", Str("a")),
    Cond(<<"assignee", "id">>, "equals", Str("u1")) }
MatchWheres ==
  {NoWhere, EmptyWhere} \cup { FieldsW(<<c>>) : c \in MatchConds }
  \cup { AndW(<<FieldsW(<<Cond(<<"dueAt">>, "exists", Bool(TRUE))>>),
                FieldsW(<<Cond(<<"name">>, "like", Str("a"))>>)>>),
         OrW(<<FieldsW(<<Cond(<<"dueAt">>, "equals", Num(1))>>), EmptyWhere>>),
         AndW(<<>>), OrW(<<>>) }

\* documentMatchesQuery(doc, { where }) for the four filters
Match(doc, a, b) ==
  /\ ~matchRun.called
  /\ matchRun' =
       [called |-> TRUE, doc |-> doc, a |-> a, b |-> b,
        matchesA   |-> documentMatchesQuery(doc, Params(a, NoPopulate)),
        matchesB   |-> documentMatchesQuery(doc, Params(b, NoPopulate)),
        matchesAnd |-> documentMatchesQuery(doc, Params(AndW(<<a, b>>), NoPopulate)),
        matchesOr  |-> documentMatchesQuery(doc, Params(OrW(<<a, b>>), NoPopulate))]
  /\ UNCHANGED <<hashRun, depsRun, replies, conns, classifyVars, actorVars, procVars,
                 regVars, fanVars, remVars, foldVars, viewVars>>

NextMatch == \E doc \in MatchDocs, a \in MatchWheres, b \in MatchWheres : Match(doc, a, b)
SpecMatch == Init /\ [][NextMatch]_vars

(***************************************************************************)
(* Query hashes (unnamed/part_002).  Here a query carries its where and    *)
(* populate as JavaScript objects: Map(<<Entry(k, v), ...>>) with the      *)
(* entries in the order of the object's keys.  An optional field that the  *)
(* query does not have is Undef.                                           *)
(***************************************************************************)
Map(es)     == [t |-> "map", e |-> es]
Entry(k, v) == [k |-> k, v |-> v]

HashWheres ==
  { Undef, Null, Map(<<>>),
    Map(<<Entry("project", Str("p1"))>>),
    Map(<<Entry("project", Str("p1")), Entry("name", Str("a"))>>),
    Map(<<Entry("name", Str("a")), Entry("project", Str("p1"))>>),
    Map(<<Entry("dueAt", Map(<<Entry("greater_than", Num(1)), Entry("less_than", Num(3))>>))>>),
    Map(<<Entry("dueAt", Map(<<Entry("less_than", Num(3)), Entry("greater_than", Num(1))>>))>>) }
HashSorts == { Undef, Null, Str("dueAt") }
HashPopulates ==
  { Undef, Null, Map(<<>>),
    Map(<<Entry("assignee", Bool(TRUE)), Entry("project", Bool(TRUE))>>),
    Map(<<Entry("project", Bool(TRUE)), Entry("assignee", Bool(TRUE))>>) }
HashQueries ==
  { [type |-> "find", collection |-> "tasks", where |-> w, sort |-> s, limit |-> Undef,
     populate |-> p, id |-> Undef] :
       w \in HashWheres, s \in HashSorts, p \in HashPopulates }

\* A hash that also takes the page into account.
stableParams_WithPage(query) ==
  LET given(v)  == v.t \notin {"undef", "null"}
      filled(v) == given(v) /\ v.t = "map" /\ Len(v.e) > 0
      one(k, keep) == IF keep THEN <<Entry(k, query[k])>> ELSE <<>>
  IN Map(one("where", filled(query.where)) \o one("sort", given(query.sort))
         \o one("limit", given(query.limit)) \o one("populate", filled(query.populate))
         \o one("id", given(query.id))
         \o (IF "page" \in DOMAIN query /\ given(query.page)
             THEN <<Entry("page", query.page)>> ELSE <<>>))

\* createQueryHash lines 13-37: the parameters that go into the hash, in the
\* order they are assigned
stableParams(query) ==
  LET given(v)  == v.t \notin {"undef", "null"}
      filled(v) == given(v) /\ v.t = "map" /\ Len(v.e) > 0
      one(k, keep) == IF keep THEN <<Entry(k, query[k])>> ELSE <<>>
  IN Map(one("where", filled(query.where)) \o one("sort", given(query.sort))
         \o one("limit", given(query.limit)) \o one("populate", filled(query.populate))
         \o one("id", given(query.id)))

\* packr.pack: MessagePack writes a value as its type and size followed by
\* its content, an object as its entries in the order of its keys
RECURSIVE pack(_)
pack(v) ==
  IF v.t = "map"
  THEN LET RECURSIVE entries(_)
           entries(es) == IF es = <<>> THEN <<>>
                          ELSE <<<<"str", Head(es).k>>>> \o pack(Head(es).v)
                               \o entries(Tail(es))
       IN <<<<"map", Len(v.e)>>>> \o entries(v.e)
  ELSE <<<<v.t, IF v.t = "str" THEN v.s ELSE v.n>>>>

\* createQueryHash: `${type}.${collection}.${encodedParams}`, as its three
\* parts; base64url is one-to-one on the packed bytes
createQueryHashParts(query) ==
  <<query.type, query.collection, [base64url |-> pack(stableParams(query))]>>

(***************************************************************************)
(* decodeQueryHash.  A hash is a string over                               *)
(*   "."  the separator      "a"  a letter of a type or collection name    *)
(*   "P"  the base64url text of a packed params object                     *)
(*   "x"  text that is neither                                             *)
(* and NotAString stands for a caller passing something else.              *)
(***************************************************************************)
MaxHashLen == 5
HashChars == {".", "a", "P", "x"}
NotAString == <<"undefined">>
HashTexts == UNION { [1..n -> HashChars] : n \in 0..MaxHashLen } \cup {NotAString}

\* String.prototype.split('.')
RECURSIVE SplitDots(_, _)
SplitDots(text, part) ==
  IF text = <<>> THEN <<part>>
  ELSE IF Head(text) = "." THEN <<part>> \o SplitDots(Tail(text), <<>>)
  ELSE SplitDots(Tail(text), Append(part, Head(text)))

NullResult == [null |-> TRUE, type |-> <<>>, collection |-> <<>>, params |-> "null"]
\* decodeParamsFromJSON: atob and JSON.parse throw on text that is not the
\* base64 of JSON (no text of the model is), and the catch returns {}
decodeParamsFromJSON(encoded) == "{}"

\* decodeQueryHash lines 66-94.  What packr.unpack does with bytes that
\* are no packed object is the library's: it throws (unpackThrows) or
\* returns whatever value the bytes happen to spell.
decodeQueryHash(hash, unpackThrows) ==
  IF hash = NotAString THEN NullResult     \* hash.split throws, the catch returns null
  ELSE LET parts == SplitDots(hash, <<>>)
       IN IF Len(parts) # 3 THEN NullResult
          ELSE [null |-> FALSE, type |-> parts[1], collection |-> parts[2],
                params |-> IF parts[3] = <<"P">> THEN "params"
                           ELSE IF unpackThrows THEN decodeParamsFromJSON(parts[3])
                           ELSE "junk"]

HashRest == <<matchRun, depsRun, replies, conns, classifyVars, actorVars, procVars, regVars,
              fanVars, remVars, foldVars, viewVars>>

\* createQueryHash applied to two queries
HashPair(q1, q2) ==
  /\ ~hashRun.called
  /\ hashRun' = [called |-> TRUE, kind |-> "hash", q1 |-> q1, q2 |-> q2,
                 hash1 |-> createQueryHashParts(q1), hash2 |-> createQueryHashParts(q2)]
  /\ UNCHANGED HashRest

\* decodeQueryHash applied to a text
Decode(hash, unpackThrows) ==
  /\ ~hashRun.called
  /\ hashRun' = [called |-> TRUE, kind |-> "decode", hash |-> hash,
                 result |-> decodeQueryHash(hash, unpackThrows)]
  /\ UNCHANGED HashRest

\* the fields of a query that createQueryHash does not read, each absent or
\* given (use-payload-sync.tsx 119 sets clientId on the query object)
HashExtras ==
  [page : {Undef, Num(2)}, depth : {Undef, Num(1)}, locale : {Undef, Str("de")},
   fallbackLocale : {Undef, Str("en")}, clientId : {Undef, Str("c1")}]
WithExtras(q, extras) ==
  [k \in DOMAIN q \cup DOMAIN extras |-> IF k \in DOMAIN extras THEN extras[k] ELSE q[k]]
\* the queries that are varied: one per where, with a sort
VariedQueries == { q \in HashQueries : q.sort = Str("dueAt") /\ q.populate = Undef }

\* createQueryHash applied to one query with two sets of the other fields,
\* and both keys registered for one session (endpoints.ts 118-165,
\* addQueryToSession)
HashVariants(q, e1, e2) ==
  /\ ~hashRun.called
  /\ LET q1 == WithExtras(q, e1)
         q2 == WithExtras(q, e2)
         h1 == createQueryHashParts(q1)
         h2 == createQueryHashParts(q2)
         s0 == addSession(<<>>, "c1", [clientId |-> "c1", queries |-> <<>>])
         s1 == addQueryToSession(s0, "c1", [queryKey |-> h1, queryType |-> "find"])
         s2 == addQueryToSession(s1, "c1", [queryKey |-> h2, queryType |-> "find"])
     IN hashRun' = [called |-> TRUE, kind |-> "variants", q1 |-> q1, q2 |-> q2,
                    hash1 |-> h1, hash2 |-> h2, queries |-> QueriesOf(s2, "c1")]
  /\ UNCHANGED HashRest

NextHash ==
  \/ \E q1 \in HashQueries, q2 \in HashQueries : HashPair(q1, q2)
  \/ \E q \in VariedQueries, e1 \in HashExtras, e2 \in HashExtras : HashVariants(q, e1, e2)
  \/ \E hash \in HashTexts, unpackThrows \in BOOLEAN : Decode(hash, unpackThrows)
SpecHash == Init /\ [][NextHash]_vars

(***************************************************************************)
(* The schema dependency extractor applied to a find or findByID query     *)
(* (schema-dependency-extractor.ts 8-89).                                  *)
(***************************************************************************)
\* field names: relationships of tasks and projects, and one no schema has
DepsFields == {"assignee", "project", "workspace", "bogus"}
\* "pages" is a collection the config does not have
DepsCollections == {"tasks", "projects", "pages"}
DepsLeaves == { PopTrue(f) : f \in DepsFields }
DepsEntries ==
  DepsLeaves
  \cup { PopNested(f, <<>>) : f \in DepsFields }
  \cup { PopNested(f, <<e>>) : f \in DepsFields, e \in DepsLeaves }
DepsPopulates ==
  {NoPopulate} \cup { <<e>> : e \in DepsEntries }
  \cup { <<e1, e2>> : e1 \in DepsEntries, e2 \in DepsEntries }

\* extractQueryDependencies(query, payloadConfig) for a query with populate
\* and no where (a findByID has none, and where is read for find and count)
Extract(type, collection, populate) ==
  /\ ~depsRun.called
  /\ depsRun' = [called |-> TRUE, type |-> type, collection |-> collection,
                 populate |-> populate,
                 deps |-> extractQueryDependencies(collection, Params(NoWhere, populate))]
  /\ UNCHANGED <<matchRun, hashRun, replies, conns, classifyVars, actorVars, procVars,
                 regVars, fanVars, remVars, foldVars, viewVars>>

NextDeps ==
  \E type \in {"find", "findByID"}, collection \in DepsCollections,
     populate \in DepsPopulates : Extract(type, collection, populate)
SpecDeps == Init /\ [][NextDeps]_vars

(***************************************************************************)
(* The client: folding deltas into the cached array of a find query        *)
(* (client/payload-sync.ts handleIncrementalUpdates and its helpers).      *)
(* A sort is "" (none), "dueAt" or "-dueAt".  A key a JSON document does   *)
(* not carry is a field that is Undef.                                     *)
(***************************************************************************)
Sorts == {"", "dueAt", "-dueAt"}
isDescending(sort) == sort = "-dueAt"
sortField(sort) == "dueAt"

\* getNestedValue of payload-sync.ts 490-494 for a one-key path
clientNestedValue(doc, field) == doc.f[field]

\* JavaScript < on the values a sort field holds here: numbers and null
\* compare as numbers (null as 0), undefined compares false with everything
RawLt(a, b) ==
  /\ a.t \in {"num", "null", "bool"}
  /\ b.t \in {"num", "null", "bool"}
  /\ NumOf(a) < NumOf(b)

compareDocuments(docA, docB, field, descending) ==
  LET valueA == clientNestedValue(docA, field)
      valueB == clientNestedValue(docB, field)
      comparison == IF RawLt(valueA, valueB) THEN -1
                    ELSE IF RawLt(valueB, valueA) THEN 1 ELSE 0
  IN IF descending THEN -comparison ELSE comparison

Splice(docs, index, newDoc) ==
  SubSeq(docs, 1, index) \o <<newDoc>> \o SubSeq(docs, index + 1, Len(docs))

\* the binary search, on 0-based left and right; the result is the 0-based
\* index to insert at
RECURSIVE BinarySearch(_, _, _, _, _)
BinarySearch(docs, newDoc, sort, left, right) ==
  IF left >= right THEN left
  ELSE LET mid == (left + right) \div 2
           comparison == compareDocuments(docs[mid + 1], newDoc, sortField(sort),
                                          isDescending(sort))
       IN IF comparison < 0 THEN BinarySearch(docs, newDoc, sort, mid + 1, right)
          ELSE BinarySearch(docs, newDoc, sort, left, mid)

findSortedInsertPosition(docs, newDoc, sort) ==
  IF Len(docs) = 0 THEN 0 ELSE BinarySearch(docs, newDoc, sort, 0, Len(docs))

insertDocumentSorted(docs, newDoc, sort) ==
  IF sort = "" \/ Len(docs) = 0 THEN Append(docs, newDoc)
  ELSE Splice(docs, findSortedInsertPosition(docs, newDoc, sort), newDoc)

\* Object.prototype.hasOwnProperty.call(updatedDoc, sortField)
mightAffectSorting(updatedDoc, sort) ==
  sort # "" /\ updatedDoc.f[sortField(sort)] # Undef

(***************************************************************************)
(* docs.sort(compare).  With a comparator that is not consistent (some     *)
(* document has no value to compare) the order Array.prototype.sort leaves *)
(* is the engine's: for arrays this short the engines run an insertion     *)
(* sort, by binary search after taking the leading run ("binary") or by a  *)
(* linear scan from the right ("linear").  With a consistent comparator    *)
(* both give the stable sorted order.                                      *)
(***************************************************************************)
Engines == {"binary", "linear"}
Cmp(sort, a, b) == compareDocuments(a, b, sortField(sort), isDescending(sort))

RECURSIVE LinearPos(_, _, _, _)
\* scanning prefix from index j down: the index after which item goes
LinearPos(prefix, item, sort, j) ==
  IF j = 0 \/ Cmp(sort, prefix[j], item) <= 0 THEN j
  ELSE LinearPos(prefix, item, sort, j - 1)

RECURSIVE PivotPos(_, _, _, _, _)
PivotPos(prefix, pivot, sort, left, right) ==
  IF left >= right THEN left
  ELSE LET mid == left + ((right - left) \div 2)
       IN IF Cmp(sort, pivot, prefix[mid + 1]) < 0
          THEN PivotPos(prefix, pivot, sort, left, mid)
          ELSE PivotPos(prefix, pivot, sort, mid + 1, right)

RECURSIVE RunLength(_, _, _, _)
\* the length of the run that starts the array, idx the next index to test
RunLength(docs, sort, descending, idx) ==
  IF idx > Len(docs) THEN idx - 1
  ELSE LET order == Cmp(sort, docs[idx], docs[idx - 1])
       IN IF (descending /\ order >= 0) \/ (~descending /\ order < 0) THEN idx - 1
          ELSE RunLength(docs, sort, descending, idx + 1)

Reverse(seq) == [i \in 1..Len(seq) |-> seq[Len(seq) + 1 - i]]

RECURSIVE InsertionSort(_, _, _, _)
\* sorted is the sorted prefix, next the index of the next element of docs
InsertionSort(docs, sort, engine, sorted) ==
  IF Len(sorted) = Len(docs) THEN sorted
  ELSE LET item == docs[Len(sorted) + 1]
           pos  == IF engine = "linear" THEN LinearPos(sorted, item, sort, Len(sorted))
                   ELSE PivotPos(sorted, item, sort, 0, Len(sorted))
       IN InsertionSort(docs, sort, engine, Splice(sorted, pos, item))

sortDocumentArray(docs, sort, engine) ==
  IF sort = "" \/ Len(docs) < 2 THEN docs
  ELSE IF engine = "linear" THEN InsertionSort(docs, sort, engine, <<docs[1]>>)
  ELSE LET descending == Cmp(sort, docs[2], docs[1]) < 0
           run  == RunLength(docs, sort, descending, 3)
           head == IF descending THEN Reverse(SubSeq(docs, 1, run))
                   ELSE SubSeq(docs, 1, run)
       IN InsertionSort(head \o SubSeq(docs, run + 1, Len(docs)), sort, engine, head)

\* updatedDocs.findIndex((doc) => doc.id === data.id), 0 when there is none
findIndex(docs, data) ==
  IF \E i \in 1..Len(docs) : docs[i].f["id"] = data.f["id"]
  THEN CHOOSE i \in 1..Len(docs) :
         /\ docs[i].f["id"] = data.f["id"]
         /\ \A j \in 1..(i - 1) : docs[j].f["id"] # data.f["id"]
  ELSE 0

\* { ...old, ...data }
Merge(old, data) ==
  [x |-> TRUE, f |-> [k \in Fields |-> IF data.f[k] # Undef THEN data.f[k] ELSE old.f[k]]]

MergeInPlace(docs, index, data, sort, engine) ==
  LET merged == [docs EXCEPT ![index] = Merge(docs[index], data)]
  IN IF mightAffectSorting(data, sort) THEN sortDocumentArray(merged, sort, engine)
     ELSE merged

\* handleIncrementalUpdates lines 152-207: the switch on changeType over a
\* copy of the cached docs
applyIncrementalUpdate(docs, changeType, data, sort, engine) ==
  LET index == findIndex(docs, data)
  IN CASE changeType = "insert" -> insertDocumentSorted(docs, data, sort)
       [] changeType = "update" ->
            IF index > 0 THEN MergeInPlace(docs, index, data, sort, engine) ELSE docs
       [] changeType = "upsert" ->
            IF index > 0 THEN MergeInPlace(docs, index, data, sort, engine)
            ELSE insertDocumentSorted(docs, data, sort)
       [] OTHER -> SelectSeq(docs, LAMBDA doc : doc.f["id"] # data.f["id"])

\* no document precedes one the comparator puts before it
Ordered(docs, sort) ==
  sort = "" \/ \A i, j \in 1..Len(docs) : i < j => Cmp(sort, docs[i], docs[j]) <= 0
DistinctIds(docs) ==
  \A i, j \in 1..Len(docs) : i # j => docs[i].f["id"] # docs[j].f["id"]

MaxDeltas == 2
MaxFetched == 2
FoldIds == {"t1", "t2", "t3", "t4"}
FetchedIds == {"t1", "t2"}
FoldDueAts == {Undef, Num(1), Num(3), Num(5)}
FoldDoc(id, dueAt) == Doc(id, Str("a"), Str("p1"), Str("u1"), dueAt)
FoldDocs == { FoldDoc(id, d) : id \in FoldIds, d \in FoldDueAts }
ChangeTypes == {"insert", "update", "upsert", "delete"}

\* the result of the initial fetch: documents with distinct ids, in the
\* order of the query's sort, those without a value of the sort field
\* wherever the database puts them
Fetched(sort) ==
  { docs \in UNION { [1..n -> { FoldDoc(id, d) : id \in FetchedIds, d \in FoldDueAts }] :
                       n \in 0..MaxFetched } :
      DistinctIds(docs) /\ Ordered(docs, sort) }

InitFold ==
  /\ ClassifyIdle /\ ActorEmpty /\ RegIdle /\ FanIdle /\ RemIdle /\ ViewIdle /\ EndIdle
  /\ clients = {}
  /\ payloadConfig = "null"
  /\ foldSort \in Sorts
  /\ foldEngine \in Engines
  /\ foldHist \in { <<docs>> : docs \in Fetched(foldSort) }
  /\ foldLog = <<>>

\* the cached docs now
FoldNow == foldHist[Len(foldHist)]

\* one update of an incremental_updates message for the query, its
\* subscription active and its array cached
FoldUpdate(changeType, data) ==
  /\ Len(foldLog) < MaxDeltas
  /\ foldHist' = Append(foldHist,
                        applyIncrementalUpdate(FoldNow, changeType, data, foldSort, foldEngine))
  /\ foldLog' = Append(foldLog, Change(changeType, data))
  /\ UNCHANGED <<foldSort, foldEngine, classifyVars, actorVars, procVars, regVars,
                 fanVars, remVars, viewVars, endVars>>

NextFold == \E changeType \in ChangeTypes, data \in FoldDocs : FoldUpdate(changeType, data)
SpecFold == InitFold /\ [][NextFold]_vars

\* longer runs of deltas about one document that the initial result may
\* already hold: a delta delivered again, or a delta for a document the
\* fetch returned
MaxRedelivered == 3
RedeliveredDueAts == {Undef, Num(1), Num(3)}
RedeliveredDocs == { FoldDoc("t1", d) : d \in RedeliveredDueAts }
FoldRedelivered(changeType, data) ==
  /\ Len(foldLog) < MaxRedelivered
  /\ foldHist' = Append(foldHist,
                        applyIncrementalUpdate(FoldNow, changeType, data, foldSort, foldEngine))
  /\ foldLog' = Append(foldLog, Change(changeType, data))
  /\ UNCHANGED <<foldSort, foldEngine, classifyVars, actorVars, procVars, regVars,
                 fanVars, remVars, viewVars, endVars>>

NextRefold ==
  \E changeType \in ChangeTypes, data \in RedeliveredDocs : FoldRedelivered(changeType, data)
SpecRefold == InitFold /\ [][NextRefold]_vars

(***************************************************************************)
(* The client's Views (client/view-store.ts, the view wrapper and shared   *)
(* cache of client/payload-sync.ts, client/use-payload-sync.tsx) and what  *)
(* the client sees of the server: its answers to POST /api/query and the   *)
(* deltas on the event stream.                                             *)
(* The data of a query result is the set of the server's mutations it      *)
(* reflects.                                                               *)
(***************************************************************************)
ServerRest == <<classifyVars, actorVars, procVars, regVars, fanVars, remVars, foldVars,
                endVars>>

\* usePayloadQuery renders: payloadViewStore.getView(query, true, ttl).  A
\* new View materializes in its constructor: it shows what the shared
\* cache holds and sends the initial query.
getView(k, ttl) ==
  LET query == ConsumerQuery(k)
      hash  == createQueryHash(query)
  IN /\ consumers[k].pc = "out"
     /\ IF viewStore[hash] # 0
        THEN /\ wrappers' = [wrappers EXCEPT ![viewStore[hash]].ttl = ttl]
             /\ consumers' = [consumers EXCEPT ![k] = [pc |-> "rendered",
                                                       view |-> viewStore[hash]]]
             /\ UNCHANGED <<viewStore, reqs>>
        ELSE /\ \E w \in ViewIds : ~wrappers[w].made
             /\ Len(reqs) < MaxRequests
             /\ LET w == CHOOSE v \in ViewIds :
                           ~wrappers[v].made /\ \A u \in ViewIds : u < v => wrappers[u].made
                    made == [wrappers EXCEPT ![w] =
                               [NoWrapper EXCEPT !.made = TRUE, !.query = query, !.ttl = ttl]]
                IN /\ wrappers' = IF sharedCache[hash].has
                                  THEN updateData(made, w, sharedCache[hash]) ELSE made
                   /\ reqs' = Append(reqs, Request(w, hash, "initial"))
                   /\ viewStore' = [viewStore EXCEPT ![hash] = w]
                   /\ consumers' = [consumers EXCEPT ![k] = [pc |-> "rendered", view |-> w]]
     /\ UNCHANGED <<activeSubscriptions, cacheSubscribers, cacheUnsubscribers, sharedCache,
                    dataCache, sse, server, invalLog, ServerRest>>

\* useSyncExternalStore subscribes: view.subscribe(callback), lines 1087-1093
subscribe(k) ==
  LET w == consumers[k].view
  IN /\ consumers[k].pc = "rendered"
     /\ IF wrappers[w].isDestroyed
        THEN /\ consumers' = [consumers EXCEPT ![k].pc = "threw"]
             /\ UNCHANGED wrappers
        ELSE /\ consumers' = [consumers EXCEPT ![k].pc = "subscribed"]
             /\ wrappers' = [wrappers EXCEPT ![w].subscribers = @ \cup {k},
                                             ![w].cleanupTimer = NoTimer]
     /\ UNCHANGED <<viewStore, activeSubscriptions, cacheSubscribers, cacheUnsubscribers,
                    sharedCache, dataCache, reqs, sse, server, invalLog, ServerRest>>

\* the render is thrown away before it subscribes
discard(k) ==
  /\ consumers[k].pc = "rendered"
  /\ consumers' = [consumers EXCEPT ![k] = IdleConsumer]
  /\ UNCHANGED <<viewStore, wrappers, activeSubscriptions, cacheSubscribers,
                 cacheUnsubscribers, sharedCache, dataCache, reqs, sse, server, invalLog,
                 ServerRest>>

\* the closure subscribe returned, lines 1094-1098, with
\* #scheduleCleanupIfNeeded (1200-1209)
unsubscribe(k) ==
  LET w    == consumers[k].view
      left == wrappers[w].subscribers \ {k}
  IN /\ consumers[k].pc = "subscribed"
     /\ consumers' = [consumers EXCEPT ![k] = IdleConsumer]
     /\ wrappers' = [wrappers EXCEPT
          ![w].subscribers = left,
          ![w].zeroFor = 0,
          ![w].cleanupTimer =
             IF left = {} /\ ~@.armed
             THEN [armed |-> TRUE, delay |-> wrappers[w].ttl, elapsed |-> 0] ELSE @]
     /\ UNCHANGED <<viewStore, activeSubscriptions, cacheSubscribers, cacheUnsubscribers,
                    sharedCache, dataCache, reqs, sse, server, invalLog, ServerRest>>

\* a unit of time passes
Tick ==
  /\ \E w \in ViewIds : wrappers[w].cleanupTimer.armed
                        /\ wrappers[w].cleanupTimer.elapsed < MaxTTL
  /\ wrappers' = [w \in ViewIds |->
       IF wrappers[w].cleanupTimer.armed /\ wrappers[w].cleanupTimer.elapsed < MaxTTL
       THEN [wrappers[w] EXCEPT !.cleanupTimer.elapsed = @ + 1, !.zeroFor = @ + 1]
       ELSE wrappers[w]]
  /\ UNCHANGED <<viewStore, consumers, activeSubscriptions, cacheSubscribers,
                 cacheUnsubscribers, sharedCache, dataCache, reqs, sse, server, invalLog,
                 ServerRest>>

\* the cleanup timer fires (1202-1207): destroy() (1171-1184) and the
\* store's #onViewDematerialized(hash) (view-store.ts 153-171)
cleanupTimerFires(w) ==
  LET hash == createQueryHash(wrappers[w].query)
      view == viewStore[hash]
  IN /\ wrappers[w].cleanupTimer.armed
     /\ wrappers[w].cleanupTimer.elapsed >= wrappers[w].cleanupTimer.delay
     /\ IF wrappers[w].subscribers # {}
        THEN UNCHANGED <<wrappers, viewStore, activeSubscriptions, cacheSubscribers,
                         cacheUnsubscribers>>
        ELSE /\ wrappers' = [wrappers EXCEPT ![w].isDestroyed = TRUE,
                                             ![w].subscribers = {},
                                             ![w].cleanupTimer = NoTimer]
             /\ IF view # 0
                THEN /\ activeSubscriptions' =
                          [activeSubscriptions EXCEPT ![hash] = NoSubscription]
                     /\ cacheSubscribers' =
                          [cacheSubscribers EXCEPT ![hash] = @ \ {cacheUnsubscribers[hash]}]
                     /\ cacheUnsubscribers' = [cacheUnsubscribers EXCEPT ![hash] = 0]
                     /\ viewStore' = [viewStore EXCEPT ![hash] = 0]
                ELSE UNCHANGED <<viewStore, activeSubscriptions, cacheSubscribers,
                                 cacheUnsubscribers>>
     /\ UNCHANGED <<consumers, sharedCache, dataCache, reqs, sse, server, invalLog,
                    ServerRest>>

(***************************************************************************)
(* The server as the client sees it (endpoints.ts payloadQueryEndpoint:    *)
(* the subscription is registered, lines 139-165, before the query is      *)
(* executed, 168-183), and a mutation with its delta to the registered     *)
(* query.                                                                  *)
(***************************************************************************)
ServerRegisters(i) ==
  /\ reqs[i].stage = "sent"
  /\ reqs' = [reqs EXCEPT ![i].stage = "registered"]
  /\ server' = [server EXCEPT !.registered = @ \cup {reqs[i].hash}]
  /\ UNCHANGED <<viewStore, wrappers, consumers, activeSubscriptions, cacheSubscribers,
                 cacheUnsubscribers, sharedCache, dataCache, sse, invalLog, ServerRest>>

ServerExecutes(i) ==
  /\ reqs[i].stage = "registered"
  /\ reqs' = [reqs EXCEPT ![i].stage = "answered", ![i].data = Data(1..server.done)]
  /\ UNCHANGED <<viewStore, wrappers, consumers, activeSubscriptions, cacheSubscribers,
                 cacheUnsubscribers, sharedCache, dataCache, sse, server, invalLog,
                 ServerRest>>

RECURSIVE SetToSeq(_)
SetToSeq(S) ==
  IF S = {} THEN <<>>
  ELSE LET x == CHOOSE y \in S : TRUE IN <<x>> \o SetToSeq(S \ {x})

\* a mutation of the collection (type "incremental": a delta of the direct
\* path) or of a collection the query depends on (type "invalidate")
Mutate(type) ==
  /\ server.done < MaxMutations
  /\ server' = [server EXCEPT !.done = @ + 1]
  /\ sse' = sse \o SetToSeq({ [type |-> type, hash |-> h, m |-> server.done + 1] :
                                h \in server.registered })
  /\ UNCHANGED <<viewStore, wrappers, consumers, activeSubscriptions, cacheSubscribers,
                 cacheUnsubscribers, sharedCache, dataCache, reqs, invalLog, ServerRest>>

(***************************************************************************)
(* The client's continuations and handlers.                                *)
(***************************************************************************)
\* subscribeToQuery(query, callback): activeSubscriptions.set(hashKey, ...)
subscribeToQuery(subs, query, w) ==
  [subs EXCEPT ![createQueryHash(query)] = [owner |-> w, query |-> query]]

\* the answer to the initial query of View w arrives: executeQuery caches
\* it and returns, and #onViewMaterialized goes on after its await
\* (view-store.ts 80-143); with ~ok the fetch failed and the catch runs
initialFetchResolves(i, ok) ==
  LET w     == reqs[i].by
      query == wrappers[w].query
      hash  == createQueryHash(query)
      data  == reqs[i].data
      shown == NotifyData(updateData(wrappers, w, data), cacheSubscribers[hash], data)
  IN /\ reqs[i].stage = "answered"
     /\ reqs[i].kind = "initial"
     /\ IF ok
        THEN /\ dataCache' = [dataCache EXCEPT ![hash] = data]
             /\ wrappers' = shown
             /\ sharedCache' = [sharedCache EXCEPT ![hash] = data]
             /\ cacheSubscribers' = [cacheSubscribers EXCEPT ![hash] = @ \cup {w}]
             /\ cacheUnsubscribers' = [cacheUnsubscribers EXCEPT ![hash] = w]
             /\ activeSubscriptions' = subscribeToQuery(activeSubscriptions, query, w)
             /\ reqs' = [reqs EXCEPT ![i].stage = "done",
                                     ![i].applied = (shown[w].snapshot =
                                                      createSnapshot(data, FALSE, "complete"))]
        ELSE /\ wrappers' = updateError(wrappers, w)
             /\ reqs' = [reqs EXCEPT ![i].stage = "failed"]
             /\ UNCHANGED <<dataCache, sharedCache, cacheSubscribers, cacheUnsubscribers,
                            activeSubscriptions>>
     /\ UNCHANGED <<viewStore, consumers, sse, server, invalLog, ServerRest>>

\* the answer to a re-fetch the cache subscriber of View w started
\* (view-store.ts 113-125)
refetchResolves(i, ok) ==
  LET w     == reqs[i].by
      query == wrappers[w].query
      hash  == createQueryHash(query)
      data  == reqs[i].data
      shown == NotifyData(updateData(wrappers, w, data), cacheSubscribers[hash], data)
  IN /\ reqs[i].stage = "answered"
     /\ reqs[i].kind = "refetch"
     /\ IF ok
        THEN /\ dataCache' = [dataCache EXCEPT ![hash] = data]
             /\ wrappers' = shown
             /\ sharedCache' = [sharedCache EXCEPT ![hash] = data]
             /\ reqs' = [reqs EXCEPT ![i].stage = "done",
                                     ![i].applied = (shown[w].snapshot =
                                                      createSnapshot(data, FALSE, "complete"))]
        ELSE /\ wrappers' = updateError(wrappers, w)
             /\ reqs' = [reqs EXCEPT ![i].stage = "failed"]
             /\ UNCHANGED <<dataCache, sharedCache>>
     /\ UNCHANGED <<viewStore, consumers, activeSubscriptions, cacheSubscribers,
                    cacheUnsubscribers, sse, server, invalLog, ServerRest>>

\* A cache invalidation that reaches no subscriber.
InvalidateRefetchers_None(subs) == {}

\* payloadCache.delete(query) calls every subscriber of the entry with
\* undefined (887-902), and each of them re-fetches (view-store.ts 111-126)
InvalidateRefetchers(subs) == subs

\* history: a delta that arrives while the initial query of a View is
\* registered and not yet answered to the client
NoteEarly(ws, msg) ==
  [w \in ViewIds |->
     IF InitialRegistered(reqs, w) /\ createQueryHash(ws[w].query) = msg.hash
     THEN [ws[w] EXCEPT !.early = @ \cup {msg.m}] ELSE ws[w]]

\* eventSource.onmessage -> handleSessionUpdate with one update:
\* handleIncrementalUpdates (119-229) for a find, or
\* handleCrossCollectionUpdates (277-305) for an invalidate
handleSessionUpdate ==
  LET msg  == Head(sse)
      hash == msg.hash
      sub  == activeSubscriptions[hash]
      noted == NoteEarly(wrappers, msg)
  IN /\ sse # <<>>
     /\ sse' = Tail(sse)
     /\ IF sub.owner = 0
        THEN /\ wrappers' = noted
             /\ invalLog' = IF msg.type = "invalidate"
                            THEN Append(invalLog, [owner |-> 0, view |-> viewStore[hash],
                                                   cleared |-> FALSE, refetchers |-> {}])
                            ELSE invalLog
             /\ UNCHANGED <<sharedCache, dataCache, reqs>>
        ELSE IF msg.type = "incremental"
        THEN /\ invalLog' = invalLog
             /\ reqs' = reqs
             /\ IF dataCache[hash].has
                THEN LET updated == Data(dataCache[hash].ms \cup {msg.m})
                     IN /\ dataCache' = [dataCache EXCEPT ![hash] = updated]
                        /\ sharedCache' = [sharedCache EXCEPT ![hash] = updated]
                        /\ wrappers' = NotifyData(updateData(noted, sub.owner, updated),
                                                  cacheSubscribers[hash], updated)
                ELSE /\ wrappers' = noted
                     /\ UNCHANGED <<sharedCache, dataCache>>
        ELSE LET refetchers == InvalidateRefetchers(cacheSubscribers[hash])
                 order == SetToSeq(refetchers)
             IN /\ Len(reqs) + Len(order) <= MaxRequests
                /\ sharedCache' = [sharedCache EXCEPT ![hash] = NoData]
                /\ dataCache' = [dataCache EXCEPT ![hash] = NoData]
                /\ reqs' = reqs \o [j \in 1..Len(order) |-> Request(order[j], hash, "refetch")]
                /\ wrappers' = noted
                /\ invalLog' = Append(invalLog,
                     [owner |-> sub.owner, view |-> viewStore[hash],
                      cleared |-> sharedCache'[hash] = NoData /\ dataCache'[hash] = NoData,
                      refetchers |-> refetchers])
     /\ UNCHANGED <<viewStore, consumers, activeSubscriptions, cacheSubscribers,
                    cacheUnsubscribers, server, ServerRest>>

InitView ==
  /\ ClassifyIdle /\ ActorEmpty /\ RegIdle /\ FanIdle /\ RemIdle /\ FoldIdle /\ ViewIdle /\ EndIdle
  /\ clients = {}
  /\ payloadConfig = "null"

\* the life of the Views of two components that render the same query,
\* the server answering their initial queries
NextView ==
  \/ \E k \in Consumers, ttl \in TTLs : getView(k, ttl)
  \/ \E k \in Consumers : subscribe(k)
  \/ \E k \in Consumers : discard(k)
  \/ \E k \in Consumers : unsubscribe(k)
  \/ Tick
  \/ \E w \in ViewIds : cleanupTimerFires(w)
  \/ \E i \in 1..Len(reqs) : ServerRegisters(i)
  \/ \E i \in 1..Len(reqs) : ServerExecutes(i)
  \/ \E i \in 1..Len(reqs), ok \in BOOLEAN : initialFetchResolves(i, ok)
SpecView == InitView /\ [][NextView]_vars

\* one component, its Views, and the deltas of the server's mutations
SyncConsumers == {"k1"}
SyncTTLs == {1}
NextSync ==
  \/ \E k \in SyncConsumers, ttl \in SyncTTLs : getView(k, ttl)
  \/ \E k \in SyncConsumers : subscribe(k)
  \/ \E k \in SyncConsumers : unsubscribe(k)
  \/ Tick
  \/ \E w \in ViewIds : cleanupTimerFires(w)
  \/ \E i \in 1..Len(reqs) : ServerRegisters(i)
  \/ \E i \in 1..Len(reqs) : ServerExecutes(i)
  \/ \E type \in {"incremental", "invalidate"} : Mutate(type)
  \/ \E i \in 1..Len(reqs), ok \in BOOLEAN : initialFetchResolves(i, ok)
  \/ \E i \in 1..Len(reqs), ok \in BOOLEAN : refetchResolves(i, ok)
  \/ handleSessionUpdate
SpecSync == InitView /\ [][NextSync]_vars

\* one component that renders, subscribes or has its render thrown away,
\* and unsubscribes.  Time passes, an armed timer whose delay has elapsed
\* fires, and a render that committed subscribes: the runtime and React
\* see to each of them, so each is weakly fair.
NextLinger ==
  \/ \E k \in SyncConsumers, ttl \in SyncTTLs : getView(k, ttl)
  \/ \E k \in SyncConsumers : subscribe(k)
  \/ \E k \in SyncConsumers : discard(k)
  \/ \E k \in SyncConsumers : unsubscribe(k)
  \/ Tick
  \/ \E w \in ViewIds : cleanupTimerFires(w)
  \/ \E i \in 1..Len(reqs) : ServerRegisters(i)
  \/ \E i \in 1..Len(reqs) : ServerExecutes(i)
  \/ \E i \in 1..Len(reqs), ok \in BOOLEAN : initialFetchResolves(i, ok)
SpecLinger ==
  /\ InitView /\ [][NextLinger]_vars
  /\ WF_vars(Tick)
  /\ \A w \in ViewIds : WF_vars(cleanupTimerFires(w))
  /\ \A k \in SyncConsumers : WF_vars(subscribe(k) \/ discard(k))

RECURSIVE Flatten(_)
Flatten(seqs) == IF seqs = <<>> THEN <<>> ELSE Head(seqs) \o Flatten(Tail(seqs))

\* payloadCache.clear() (907-922), as the rollback of a failed optimistic
\* mutation calls it (672-683, no invalidateQueries configured): the shared
\* cache is emptied, every subscribed callback is called with undefined,
\* on which its View re-fetches (view-store.ts 111-126), and then
\* cacheSubscribers.clear() forgets every callback
payloadCacheClear ==
  LET order == [h \in Hashes |-> SetToSeq(cacheSubscribers[h])]
      hs    == SetToSeq({ h \in Hashes : cacheSubscribers[h] # {} })
      sent  == Flatten([j \in 1..Len(hs) |->
                 [n \in 1..Len(order[hs[j]]) |-> Request(order[hs[j]][n], hs[j], "refetch")]])
  IN /\ hs # <<>>
     /\ Len(reqs) + Len(sent) <= MaxRequests
     /\ sharedCache' = [h \in Hashes |-> NoData]
     /\ reqs' = reqs \o sent
     /\ cacheSubscribers' = [h \in Hashes |-> {}]
     /\ UNCHANGED <<viewStore, wrappers, consumers, activeSubscriptions, cacheUnsubscribers,
                    dataCache, sse, server, invalLog, ServerRest>>

\* one component, its Views, the deltas of the server's mutations, and a
\* mutation hook that rolls back
NextRollback ==
  \/ \E k \in SyncConsumers, ttl \in SyncTTLs : getView(k, ttl)
  \/ \E k \in SyncConsumers : subscribe(k)
  \/ \E k \in SyncConsumers : unsubscribe(k)
  \/ Tick
  \/ \E w \in ViewIds : cleanupTimerFires(w)
  \/ \E i \in 1..Len(reqs) : ServerRegisters(i)
  \/ \E i \in 1..Len(reqs) : ServerExecutes(i)
  \/ \E type \in {"incremental", "invalidate"} : Mutate(type)
  \/ \E i \in 1..Len(reqs), ok \in BOOLEAN : initialFetchResolves(i, ok)
  \/ \E i \in 1..Len(reqs), ok \in BOOLEAN : refetchResolves(i, ok)
  \/ handleSessionUpdate
  \/ payloadCacheClear
SpecRollback == InitView /\ [][NextRollback]_vars

(***************************************************************************)
(* Properties.                                                             *)
(***************************************************************************)
Matches(doc, where) == doc.x /\ documentMatchesQuery(doc, Params(where, NoPopulate))

\* C1: for a find subscription with filter F the direct path classifies by
\* the table: create -> insert if the new document matches, else nothing;
\* update -> update if before and after match, upsert if only after matches
\* (or there is no before), delete carrying the before-document if only
\* before matches, nothing if neither; delete -> delete carrying the
\* before-document if it matches, else nothing.
C1_ClassifierTable ==
  classifyIn.called =>
    LET after  == Matches(classifyIn.doc, classifyIn.where)
        before == Matches(classifyIn.originalDoc, classifyIn.where)
        op     == classifyIn.operation
    IN /\ op = "create" =>
            classifyOut = (IF after THEN Change("insert", classifyIn.doc) ELSE NoChange)
       /\ op = "update" =>
            classifyOut =
              (IF after /\ before THEN Change("update", classifyIn.doc)
               ELSE IF after THEN Change("upsert", classifyIn.doc)
               ELSE IF before THEN Change("delete", classifyIn.originalDoc)
               ELSE NoChange)
       /\ op = "delete" =>
            classifyOut =
              (IF before THEN Change("delete", classifyIn.originalDoc) ELSE NoChange)

\* an update that moved a document out of the filter was classified
C1_EditedOutClassified ==
  /\ classifyIn.called
  /\ classifyIn.operation = "update"
  /\ Matches(classifyIn.originalDoc, classifyIn.where)
  /\ ~Matches(classifyIn.doc, classifyIn.where)
  /\ classifyIn.doc # classifyIn.originalDoc
  /\ classifyOut.changeType = "delete"

\* the updates of mutation m for queryKey on the channel of clientId
Delivered(clientId, m, type, queryKey) ==
  { <<i, j>> \in (1..Len(channel[clientId])) \X (1..MaxSubs + 1) :
      /\ channel[clientId][i].m = m
      /\ channel[clientId][i].type = type
      /\ j <= Len(channel[clientId][i].updates)
      /\ channel[clientId][i].updates[j].queryKey = queryKey }
IsFind(queryKey) == QueryOf(queryKey).type \in {"find", "findByID"}

\* C2: once the direct path of a delete has run to its end, every connected
\* session holding a find query on the collection whose filter the deleted
\* document matched has been sent a delete delta carrying that document.
C2_DeleteSendsBeforeDocument ==
  \A m \in MutIds, c \in ClientIds :
    \A qk \in KeysOf(sessions, c) :
      ( /\ muts[m].operation = "delete"
        /\ pubs[m].inc.pc = "done"
        /\ c \in clients
        /\ IsFind(qk)
        /\ QueryOf(qk).collection = muts[m].collection
        /\ documentMatchesQuery(muts[m].before, QueryOf(qk).params) )
      => \E ij \in Delivered(c, m, "incremental_updates", qk) :
           channel[c][ij[1]].updates[ij[2]] = Update(qk, "delete", muts[m].before)

\* C3: in every state a queryKey is in reverseDependencies[c] exactly when c
\* is in dependencies[queryKey].dependencies.
C3_ReverseIffForward ==
  \A qk \in QueryKeys, c \in Collections :
    (qk \in Range(getQueriesDependingOn(reverseDependencies, c)))
      <=> (c \in dependencies[qk].dependencies)

\* C4: when a queryKey was registered twice with different dependency sets
\* and the later set is the one stored, getQueriesDependingOn no longer
\* returns the key for a collection of the earlier set that the later lacks.
C4_ReRegistrationReplaces ==
  \A r1 \in RegIds, r2 \in RegIds :
    ( /\ r1 # r2
      /\ regs[r1].pc = "done" /\ regs[r2].pc = "done"
      /\ regs[r1].queryKey = regs[r2].queryKey
      /\ regs[r1].dep # regs[r2].dep
      /\ dependencies[regs[r2].queryKey] = regs[r2].dep )
    => \A c \in regs[r1].dep.dependencies \ regs[r2].dep.dependencies :
         regs[r2].queryKey \notin Range(getQueriesDependingOn(reverseDependencies, c))

RegsQuiet == \A r \in RegIds : regs[r].pc \in {"idle", "done", "lost"}

\* C5: at the step that ends the handling of a client's channel close, when
\* every registration of the client had completed before the close began, no
\* dependency entry (forward or reverse) is left for a queryKey that no
\* session holds.
C5_CloseRemovesDependencies ==
  [][\A c \in ClientIds :
       ( /\ closing[c] = "deleted" /\ closing'[c] = "no"
         /\ RegsQuiet
         /\ <<c, "raced">> \notin hist )
       => \A qk \in QueryKeys :
            Holders(sessions', qk) = {}
            => /\ dependencies'[qk] = NoDep
               /\ \A col \in Collections :
                    qk \notin Range(reverseDependencies'[col])]_vars

\* C6: once every registration of a client whose channel never closed has
\* completed, the session's query list holds every registered queryKey.
C6_NoRegistrationLost ==
  \A c \in ClientIds :
    ( /\ <<c, "closed">> \notin hist
      /\ \A r \in RegIds : regs[r].clientId = c => regs[r].pc = "done" )
    => \A r \in RegIds : regs[r].clientId = c => regs[r].queryKey \in KeysOf(sessions, c)

\* C7: on every channel the messages of a mutation that returned earlier
\* come before the messages of a mutation that returned later.
C7_DeliveryOrder ==
  \A c \in ClientIds :
    \A i \in 1..Len(channel[c]), j \in 1..Len(channel[c]) :
      i < j => muts[channel[c][i].m].seq <= muts[channel[c][j].m].seq

\* C8: afterOperation returns the result of the write while the fan-out it
\* started is still running, and whatever a fan-out path does later, the
\* mutation has not failed and the result it returned is that of the write.
C8_ReturnsWithoutWaiting ==
  /\ [][\A m \in MutIds :
          (muts[m].pc # "returned" /\ muts'[m].pc = "returned")
          => /\ ~PublishSettled(pubs'[m])
             /\ ~muts'[m].failed
             /\ muts'[m].result = muts[m].doc]_vars
  /\ [](\A m \in MutIds :
          muts[m].pc = "returned" => ~muts[m].failed /\ muts[m].result = muts[m].doc)

\* a mutation returned its result and a fan-out path of it threw afterwards
C8_ReturnedThenPathFailed ==
  \E m \in MutIds :
    /\ muts[m].pc = "returned"
    /\ muts[m].result = muts[m].doc /\ muts[m].result.x
    /\ PublishSettled(pubs[m])
    /\ "failed" \in {pubs[m].inc.pc, pubs[m].cnt, pubs[m].cross.pc}

PopulatesAssignee(queryKey) ==
  \E i \in 1..Len(QueryOf(queryKey).params.populate) :
    QueryOf(queryKey).params.populate[i].name = "assignee"
NoUserRelation(queryKey) ==
  "users" \notin extractQueryDependencies(QueryOf(queryKey).collection,
                                          QueryOf(queryKey).params)
Invalidates(clientId, m, queryKey) ==
  { ij \in Delivered(clientId, m, "cross_collection_updates", queryKey) :
      channel[clientId][ij[1]].updates[ij[2]].changeType = "invalidate" }

C10_PublisherAgreesWithSchema ==
  \A m \in MutIds, c \in ClientIds :
    \A qk \in KeysOf(sessions, c) :
      ( /\ pubs[m].cross.pc = "done"
        /\ c \in clients
        /\ QueryOf(qk).collection # muts[m].collection
        /\ muts[m].collection \in dependencies[qk].dependencies
        /\ dependencies[qk].dependencies =
             extractQueryDependencies(QueryOf(qk).collection, QueryOf(qk).params) )
      => Invalidates(c, m, qk) # {}

\* the count_updates messages of mutation m on the channel of clientId
CountMessages(clientId, m) ==
  { i \in 1..Len(channel[clientId]) :
      channel[clientId][i].m = m /\ channel[clientId][i].type = "count_updates" }

\* C11: when the count path of a create, update or delete on a collection
\* has run, every count subscription on that collection held by a session
\* with an open channel has been sent a count_invalidated delta, whether
\* or not the written document matches its filter, and no count delta
\* carries a number or any other data.
C11_CountAlwaysInvalidated ==
  /\ \A m \in MutIds : pubs[m].cnt = "done" =>
        \A c \in clients : \A qk \in KeysOf(sessions, c) :
          (QueryOf(qk).type = "count" /\ QueryOf(qk).collection = muts[m].collection) =>
            \E i \in CountMessages(c, m) :
              \E j \in 1..Len(channel[c][i].updates) :
                channel[c][i].updates[j] = Update(qk, "count_invalidated", NoDoc)
  /\ \A c \in ClientIds : \A i \in 1..Len(channel[c]) :
        channel[c][i].type = "count_updates" =>
          \A j \in 1..Len(channel[c][i].updates) :
            /\ channel[c][i].updates[j].changeType = "count_invalidated"
            /\ channel[c][i].updates[j].data = NoDoc

\* an update that moved a task out of the filter of a count invalidated
\* that count for a connected client
C11_FilteredCountInvalidated ==
  \E c \in clients, m \in MutIds :
    /\ "qM" \in KeysOf(sessions, c)
    /\ pubs[m].cnt = "done"
    /\ muts[m].operation = "update"
    /\ ~documentMatchesQuery(muts[m].doc, QueryOf("qM").params)
    /\ \E i \in CountMessages(c, m) :
          \E j \in 1..Len(channel[c][i].updates) :
            channel[c][i].updates[j] = Update("qM", "count_invalidated", NoDoc)

\* C20: a removeSession call that found a session owning at least one
\* query does not throw, and when it has returned the actor has deleted
\* the session for it and unregisterQueryDependencies was called with
\* every queryKey the session owned.
C20_RemoveSessionCompletes ==
  \A c \in ClientIds :
    removals[c].owned # {} =>
      /\ removals[c].pc # "threw"
      /\ removals[c].pc = "returned" =>
            removals[c].removed /\ removals[c].unregistered = removals[c].owned

\* C16: whenever the cached docs are in the order of the query's sort
\* before a delta is folded, they are in that order after it, for insert,
\* update, upsert and delete, ascending and descending.
C16_FoldKeepsOrder ==
  \A i \in 1..Len(foldLog) :
    Ordered(foldHist[i], foldSort) => Ordered(foldHist[i + 1], foldSort)

\* C17: folding an update delta a second time, right after the first,
\* leaves the cached docs as the first application left them.
C17_UpdateIdempotent ==
  \A i \in 1..(Len(foldLog) - 1) :
    (foldLog[i].changeType = "update" /\ foldLog[i + 1] = foldLog[i]) =>
      foldHist[i + 2] = foldHist[i + 1]

\* C18: the cached docs never hold two documents with the same id; in
\* particular an insert folded twice adds its document once.
C18_NoDuplicateIds ==
  \A i \in 1..Len(foldHist) : DistinctIds(foldHist[i])

\* two queries are fingerprint-equal: same type, collection, where, sort
\* once an empty where is dropped
FingerprintEqual(q1, q2) ==
  /\ q1.type = q2.type /\ q1.collection = q2.collection /\ q1.sort = q2.sort
  /\ (q1.where = q2.where \/ {q1.where, q2.where} \subseteq {"absent", "empty"})
\* the Views in the store for a query fingerprint-equal to query
StoredFor(query) ==
  { viewStore[h] : h \in { g \in Hashes :
      viewStore[g] # 0 /\ FingerprintEqual(wrappers[viewStore[g]].query, query) } }
\* the subscription entries the client holds for such a query
EntriesFor(query) ==
  { h \in Hashes : activeSubscriptions[h].owner # 0
                    /\ FingerprintEqual(activeSubscriptions[h].query, query) }

\* C12: while a View for a fingerprint is in the store, a getView with an
\* enabled fingerprint-equal query returns that View, so every component
\* that rendered or subscribed while it is stored holds it, and the client
\* holds at most one subscription entry for the fingerprint however many
\* components attach.
C12_OneViewOneSubscription ==
  /\ [][\A k \in Consumers :
         (consumers[k].pc = "out" /\ consumers'[k].pc = "rendered"
          /\ StoredFor(ConsumerQuery(k)) # {})
           => StoredFor(ConsumerQuery(k)) = {consumers'[k].view}]_vars
  /\ [](\A k \in Consumers :
         /\ Cardinality(StoredFor(ConsumerQuery(k))) <= 1
         /\ Cardinality(EntriesFor(ConsumerQuery(k))) <= 1)

\* both components are subscribed to one View whose subscription is active
C12_TwoConsumersShare ==
  /\ \A k \in Consumers : consumers[k].pc = "subscribed"
  /\ consumers["k1"].view = consumers["k2"].view
  /\ Cardinality(EntriesFor(ConsumerQuery("k1"))) = 1

\* C13: a View is destroyed only when it has had no subscriber for its
\* whole TTL since the last unsubscribe, and a View with a subscriber has
\* no teardown pending and is not destroyed.
C13_TeardownOnlyAfterTTL ==
  /\ [][\A w \in ViewIds :
         (~wrappers[w].isDestroyed /\ wrappers'[w].isDestroyed)
           => wrappers[w].subscribers = {} /\ wrappers[w].zeroFor >= wrappers[w].ttl]_vars
  /\ [](\A w \in ViewIds :
         wrappers[w].subscribers # {} =>
           ~wrappers[w].cleanupTimer.armed /\ ~wrappers[w].isDestroyed)

\* C14: once a View is destroyed no subscription made for it exists: no
\* entry of activeSubscriptions and no subscriber of the shared cache is
\* its, whether or not its initial query was still pending.
C14_NoSubscriptionOfDestroyedView ==
  \A w \in ViewIds : wrappers[w].isDestroyed =>
    \A h \in Hashes : activeSubscriptions[h].owner # w /\ w \notin cacheSubscribers[h]

\* C15: when the initial query of a View has resolved, its snapshot
\* reflects every delta that arrived after the server registered the
\* subscription and before the query resolved.
C15_EarlyDeltaNotLost ==
  \A i \in 1..Len(reqs) :
    (reqs[i].kind = "initial" /\ reqs[i].stage = "done"
     /\ ~wrappers[reqs[i].by].isDestroyed
     /\ wrappers[reqs[i].by].snapshot.type = "complete")
      => wrappers[reqs[i].by].early \subseteq wrappers[reqs[i].by].snapshot.data.ms

OtherSessions(ss, clientId) == SelectSeq(ss, LAMBDA e : e.clientId # clientId)

FinishedPathsDelivered ==
  \A m \in MutIds, c \in clients : \A qk \in KeysOf(sessions, c) :
    LET query == QueryOf(qk)
    IN /\ ( /\ pubs[m].inc.pc = "done"
            /\ IsFind(qk) /\ query.collection = muts[m].collection
            /\ ClassifyChange(muts[m].operation, muts[m].doc, muts[m].originalDoc,
                              query.params) # NoChange )
            => Delivered(c, m, "incremental_updates", qk) # {}
       /\ ( /\ pubs[m].cnt = "done"
            /\ query.type = "count" /\ query.collection = muts[m].collection )
            => Delivered(c, m, "count_updates", qk) # {}
       /\ ( /\ pubs[m].cross.pc = "done"
            /\ qk \in Range(getQueriesDependingOn(reverseDependencies, muts[m].collection))
            /\ determineQueryChangeType(query, muts[m].collection) = "invalidate" )
            => Invalidates(c, m, qk) # {}

\* the paths of publishChanges(m) that have not finished
PendingPaths(m) ==
  { path \in {"inc", "cnt", "cross"} :
      CASE path = "inc" -> ~IncFinished(pubs[m])
        [] path = "cnt" -> ~CntFinished(pubs[m])
        [] OTHER        -> ~CrossFinished(pubs[m]) }

\* C22: the three paths of one publishChanges run are independent. The
\* step in which one path fails leaves the state of the other two as it
\* was; a path that has not finished always has its next call pending (in
\* the actor's queue, or as the populate lookup of the direct path); and a
\* path that ran to its end has delivered its deltas to every connected
\* session they are for, whatever became of the other two paths.
C22_PathsIndependent ==
  /\ [][\A m \in MutIds :
         /\ (pubs[m].inc.pc # "failed" /\ pubs'[m].inc.pc = "failed")
              => pubs'[m].cnt = pubs[m].cnt /\ pubs'[m].cross = pubs[m].cross
         /\ (pubs[m].cnt # "failed" /\ pubs'[m].cnt = "failed")
              => pubs'[m].inc = pubs[m].inc /\ pubs'[m].cross = pubs[m].cross
         /\ (pubs[m].cross.pc # "failed" /\ pubs'[m].cross.pc = "failed")
              => pubs'[m].inc = pubs[m].inc /\ pubs'[m].cnt = pubs[m].cnt]_vars
  /\ [](\A m \in MutIds : \A path \in PendingPaths(m) :
          muts[m].pc = "returned" =>
            \/ \E i \in 1..Len(rpcQueue) : rpcQueue[i] = Rpc(m, path)
            \/ path = "inc" /\ pubs[m].inc.pc = "populate")
  /\ []FinishedPathsDelivered

\* the first call of the direct path threw, and the count path of the same
\* mutation ran to its end and delivered, the cross-collection path too
C22_CountDeliveredAfterDirectFailed ==
  \E m \in MutIds, c \in clients :
    /\ pubs[m].inc.pc = "failed"
    /\ pubs[m].cnt = "done"
    /\ pubs[m].cross.pc = "done"
    /\ Delivered(c, m, "count_updates", "qN") # {}

\* C23: a session without a channel in the clients map is passed over: no
\* path of a publishChanges run ends in an error because of it (no actor
\* call throws in these runs), nothing is written for a client that has no
\* channel, and every session that has a channel still gets the deltas of
\* each path that ran to its end.
C23_MissingChannelSkipped ==
  /\ \A m \in MutIds : pubs[m].inc.pc # "failed" /\ pubs[m].cnt # "failed"
                         /\ pubs[m].cross.pc # "failed"
  /\ \A m \in MutIds : muts[m].pc = "returned" => ~muts[m].failed
  /\ \A c \in ClientIds :
        (c \notin clients /\ <<c, "closed">> \notin hist) => channel[c] = <<>>
  /\ FinishedPathsDelivered

\* the count path met the session of the client without a channel first
\* and then delivered to the session behind it
C23_DeliveredBehindMissing ==
  \E m \in MutIds, live \in clients, gone \in ClientIds \ clients :
    /\ <<gone, "closed">> \notin hist
    /\ Len(sessions) = 2 /\ sessions[1].clientId = gone /\ sessions[2].clientId = live
    /\ KeysOf(sessions, gone) = {"qN"} /\ KeysOf(sessions, live) = {"qN"}
    /\ pubs[m].cnt = "done" /\ pubs[m].inc.pc = "done" /\ pubs[m].cross.pc = "done"
    /\ Delivered(live, m, "count_updates", "qN") # {}
    /\ channel[gone] = <<>>

\* C24: when the populate lookup of the direct path returns, with the
\* populated document or with a failure, the delta it was made for is kept:
\* it is queued for the session or written to its channel in that step,
\* with its queryKey and change type, carrying the populated document or,
\* and always when the document cannot be found, the unpopulated one.
C24_PopulateFailureKeepsDelta ==
  [][\A m \in MutIds :
       (pubs[m].inc.pc = "populate" /\ pubs'[m].inc # pubs[m].inc) =>
         LET p  == pubs[m].inc
             c  == p.snap[p.si].clientId
             id == p.pending.data.f["id"].s
             kept(u) == /\ u.queryKey = p.pending.queryKey
                        /\ u.changeType = p.pending.changeType
                        /\ \/ u.data = p.pending.data
                           \/ store[id].x /\ u.data = AtDepth(store[id], 1)
             last == channel'[c][Len(channel'[c])]
         IN \/ /\ pubs'[m].inc.pc = "populate" /\ pubs'[m].inc.si = p.si
               /\ \E j \in 1..Len(pubs'[m].inc.ups) : kept(pubs'[m].inc.ups[j])
            \/ /\ Len(channel'[c]) = Len(channel[c]) + 1
               /\ last.m = m /\ last.type = "incremental_updates"
               /\ \E j \in 1..Len(last.updates) : kept(last.updates[j])]_vars

\* a session was sent an insert, update or upsert for a query that
\* populates assignee whose document has assignee as an id: the lookup
\* failed and the delta went out with the unpopulated document
C24_UnpopulatedDelivered ==
  \E c \in clients : \E i \in 1..Len(channel[c]) :
    /\ channel[c][i].type = "incremental_updates"
    /\ \E j \in 1..Len(channel[c][i].updates) :
         LET u == channel[c][i].updates[j]
         IN /\ PopulatesAssignee(u.queryKey)
            /\ u.changeType \in {"insert", "update", "upsert"}
            /\ u.data.f["assignee"].t = "str"
            /\ u.data = muts[channel[c][i].m].doc

\* a body lacks a field when the field is absent
Lacks(v) == v.t = "undef"
Malformed(body) ==
  \/ Lacks(body.type) \/ Lacks(body.collection) \/ Lacks(body.clientId)
  \/ body.type \in {Str("create"), Str("update")} /\ ~body.data.x
  \/ body.type \in {Str("update"), Str("delete")} /\ Lacks(body.id)

\* C25: a request that lacks type, collection or clientId, or a mutation
\* that lacks its data or id, is answered with an error at once; it starts
\* no registration and no operation, and the step that answers it leaves
\* the sessions, the dependency index and the document store as they were.
\* Every registration and every operation in flight belongs to a request.
C25_MalformedRequestRejected ==
  /\ [](\A i \in 1..Len(replies) :
          Malformed(replies[i].body) =>
            replies[i].status = 500 /\ replies[i].reg = 0 /\ replies[i].mut = 0)
  /\ [](/\ \A r \in RegIds : regs[r].pc # "idle" =>
             \E i \in 1..Len(replies) : replies[i].reg = r
        /\ \A m \in MutIds : muts[m].pc # "idle" =>
             \E i \in 1..Len(replies) : replies[i].mut = m)
  /\ [][(Len(replies') > Len(replies) /\ Malformed(replies'[Len(replies')].body)) =>
          UNCHANGED <<sessions, dependencies, reverseDependencies, store,
                      regs, muts, pubs, rpcQueue>>]_vars

\* an update without data was answered 500 after a find of the same client
\* had registered and been answered, and the registration is still there
C25_UpdateWithoutDataAnswered ==
  /\ Len(replies) = 2
  /\ replies[1].status = 200 /\ replies[1].reg # 0
  /\ replies[2].body.type = Str("update") /\ ~replies[2].body.data.x
  /\ replies[2].body.id = Str("t1") /\ replies[2].body.clientId = Str("c1")
  /\ replies[2].body.collection = Str("tasks")
  /\ replies[2].status = 500
  /\ KeysOf(sessions, "c1") # {}
  /\ store = InitialStore

(***************************************************************************)
(* Access control (smart-publisher.ts 62-156).  The read entry a host has  *)
(* registered for a collection with registerAccessControl:                 *)
(*   "none"     nothing registered (the repository registers nothing)      *)
(*   "allow" "deny"   a function returning true, false                     *)
(*   "own"      a function returning { assignee: { equals: req.user.id } } *)
(*   "invalid"  a function returning neither a boolean nor an object       *)
(* The user of a request is Str(id), or Undef when nobody is logged in.    *)
(***************************************************************************)
AccessConfigs == {"none", "allow", "deny", "own", "invalid"}
\* the req.user of each client's requests: c1 is logged in as u1, c2 is not
RequestUser(c) == IF c = "c1" THEN Str("u1") ELSE Undef

\* canUserAccessDocument(collection, document, userContext, 'read').allowed
canUserAccessDocument(accessConfig, document, user) ==
  CASE accessConfig = "none"  -> ~Falsy(user)
    [] accessConfig = "allow" -> TRUE
    [] accessConfig = "deny"  -> FALSE
    [] accessConfig = "own"   ->
         \* req.user.id throws without a user, and the catch denies
         IF user.t = "undef" THEN FALSE
         ELSE StrictEq(getNestedValue(document, <<"assignee">>), user)
    [] OTHER                  -> FALSE

\* C26: whatever read access is registered, an incremental delta carrying a
\* document is on a session's channel only if the session's user may read
\* that document.
C26_DeltaOnlyToReaders ==
  \A accessConfig \in AccessConfigs : \A c \in ClientIds :
    \A i \in 1..Len(channel[c]) :
      channel[c][i].type = "incremental_updates" =>
        \A j \in 1..Len(channel[c][i].updates) :
          canUserAccessDocument(accessConfig, channel[c][i].updates[j].data, RequestUser(c))

\* C27: for every document and filters a and b, { and: [a, b] } matches
\* iff a and b both match, { or: [a, b] } matches iff at least one does, and
\* an empty or absent filter matches.
C27_MatcherComposes ==
  matchRun.called =>
    /\ matchRun.matchesAnd = (matchRun.matchesA /\ matchRun.matchesB)
    /\ matchRun.matchesOr = (matchRun.matchesA \/ matchRun.matchesB)
    /\ matchRun.a \in {NoWhere, EmptyWhere} => matchRun.matchesA
    /\ matchRun.b \in {NoWhere, EmptyWhere} => matchRun.matchesB

\* a document that matches one of two field conditions and not the other:
\* the disjunction matched, the conjunction did not
C27_OneOfTwoMatched ==
  /\ matchRun.called
  /\ matchRun.a.k = "fields" /\ Len(matchRun.a.conds) = 1
  /\ matchRun.b.k = "fields" /\ Len(matchRun.b.conds) = 1
  /\ matchRun.matchesA /\ ~matchRun.matchesB
  /\ matchRun.matchesOr /\ ~matchRun.matchesAnd

\* C28: a condition whose field path does not resolve in the document fails
\* for every operator, exists: false excepted.
C28_UnresolvedPathFails ==
  (/\ matchRun.called
   /\ matchRun.a.k = "fields" /\ Len(matchRun.a.conds) = 1) =>
    LET c == matchRun.a.conds[1]
    IN (/\ getNestedValue(matchRun.doc, c.path) = Undef
        /\ ~(c.op = "exists" /\ c.val = Bool(FALSE))) => ~matchRun.matchesA

\* two values that differ at most in the order of their objects' keys
RECURSIVE SameUpToKeyOrder(_, _)
SameUpToKeyOrder(v1, v2) ==
  IF v1.t = "map" /\ v2.t = "map"
  THEN /\ Len(v1.e) = Len(v2.e)
       /\ \A i \in 1..Len(v1.e) : \E j \in 1..Len(v2.e) :
            v1.e[i].k = v2.e[j].k /\ SameUpToKeyOrder(v1.e[i].v, v2.e[j].v)
  ELSE v1.t # "map" /\ v2.t # "map" /\ v1 = v2
\* an optional field that is undefined, null or an empty object
Unset(v) == v.t \in {"undef", "null"} \/ (v.t = "map" /\ v.e = <<>>)
SameQuery(q1, q2) ==
  /\ q1.type = q2.type /\ q1.collection = q2.collection
  /\ \A k \in {"where", "sort", "limit", "populate", "id"} :
       \/ Unset(q1[k]) /\ Unset(q2[k])
       \/ ~Unset(q1[k]) /\ ~Unset(q2[k]) /\ SameUpToKeyOrder(q1[k], q2[k])

\* C29: two queries that differ only in the order of object keys, at any
\* level of where or populate, or in having an optional field empty, null
\* or undefined, get the same hash.
C29_HashIgnoresKeyOrder ==
  (hashRun.called /\ hashRun.kind = "hash" /\ SameQuery(hashRun.q1, hashRun.q2)) =>
    hashRun.hash1 = hashRun.hash2

\* a text createQueryHash can produce: three parts, the last one the
\* base64url text of a packed params object
WellFormedHash(hash) ==
  /\ hash # NotAString
  /\ Len(SplitDots(hash, <<>>)) = 3
  /\ SplitDots(hash, <<>>)[3] = <<"P">>

\* C30: decodeQueryHash returns null for every input that createQueryHash
\* could not have produced (it never throws: the result is always a value).
C30_MalformedHashDecodesToNull ==
  (hashRun.called /\ hashRun.kind = "decode" /\ ~WellFormedHash(hashRun.hash)) =>
    hashRun.result.null

\* every field populated at any depth, read in the schema of the collection
\* it is reached in, has its relationship targets in deps
RECURSIVE TargetsCovered(_, _, _)
TargetsCovered(populate, collection, deps) ==
  \A i \in 1..Len(populate) :
    /\ SchemaTargets(collection, populate[i].name) \subseteq deps
    /\ \A target \in SchemaTargets(collection, populate[i].name) :
         TargetsCovered(populate[i].nested, target, deps)
\* the field names a populate mentions, at any depth
RECURSIVE PopulatedNames(_)
PopulatedNames(populate) ==
  UNION { {populate[i].name} \cup PopulatedNames(populate[i].nested) :
          i \in 1..Len(populate) }

\* C31: the dependency set of a find or findByID query holds the query's
\* own collection and, for every field populated at any depth, the
\* collections the schema relates the field to; a field the schema does not
\* know adds nothing (and the extraction returns a set all the same).
C31_PopulateTargetsExtracted ==
  depsRun.called =>
    /\ depsRun.collection \in depsRun.deps
    /\ TargetsCovered(depsRun.populate, depsRun.collection, depsRun.deps)
    /\ depsRun.deps \subseteq
         {depsRun.collection}
         \cup UNION { SchemaTargets(c, f) : c \in Collections,
                                            f \in PopulatedNames(depsRun.populate) }
    /\ (\A c \in Collections, f \in PopulatedNames(depsRun.populate) :
          SchemaTargets(c, f) = {}) => depsRun.deps = {depsRun.collection}

\* a tasks query populating project and, below it, workspace, with a field
\* no schema knows next to it: projects and workspaces were extracted
C31_NestedTargetExtracted ==
  /\ depsRun.called
  /\ depsRun.collection = "tasks"
  /\ depsRun.populate = <<PopNested("project", <<PopTrue("workspace")>>), PopTrue("bogus")>>
  /\ depsRun.deps = {"tasks", "projects", "workspaces"}

\* C32: two queries that agree on type, collection, where, sort, limit,
\* populate and id and differ in page, depth, locale, fallbackLocale or
\* clientId get the same hash, and registering both gives the session one
\* query entry.
C32_HashIgnoresOtherFields ==
  (hashRun.called /\ hashRun.kind = "variants") =>
    /\ hashRun.hash1 = hashRun.hash2
    /\ Len(hashRun.queries) = 1

\* a filtered query asked for page 2 by client c1 in one case and without
\* page or clientId in the other, under one hash
C32_PagesShareHash ==
  /\ hashRun.called /\ hashRun.kind = "variants"
  /\ hashRun.q1.where.t = "map" /\ Len(hashRun.q1.where.e) > 0
  /\ hashRun.q1.page = Num(2) /\ hashRun.q2.page = Undef
  /\ hashRun.q1.clientId = Str("c1") /\ hashRun.q2.clientId = Undef
  /\ hashRun.hash1 = hashRun.hash2

\* C33: a View that getView handed to a consumer is not destroyed before the
\* consumer subscribes: subscribe never throws 'Cannot subscribe to
\* destroyed view'.
C33_SubscribeNeverThrows ==
  /\ \A k \in Consumers : consumers[k].pc # "threw"
  /\ \A k \in Consumers :
       consumers[k].pc = "rendered" => ~wrappers[consumers[k].view].isDestroyed

(***************************************************************************)
(* One clientId opening the event stream more than once.  Every GET /sync  *)
(* is a request of its own with its own abort listener; the clients Map    *)
(* and the sessions are keyed by clientId alone.                           *)
(*   opened         requests made so far (the last one is the newest)      *)
(*   current        the request whose writer the clients Map holds, 0 none *)
(*   stage[g]       request g: none, open, then its abort listener         *)
(*                  pending (before its await), deleted (after), done      *)
(*   captured[g]    the client the listener of g got from clients.get      *)
(*   closedWriters  requests whose writer was closed by a listener         *)
(*   via, issued    history: the keys registered while request via.conn    *)
(*                  was current, and every key the client ever queried     *)
(***************************************************************************)
ReopenKeys == {"qA"}
ReopenClients == {"c1"}
ConnRest == <<payloadConfig, regVars, classifyVars, fanVars, remVars, foldVars, viewVars,
              replies, pureVars>>

\* endpoints.ts 281-283: clients.set(clientId, client) over whatever is there
OpenChannel(c) ==
  /\ NoMutationYet
  /\ conns[c].opened < MaxConns
  /\ LET g == conns[c].opened + 1
     IN conns' = [conns EXCEPT ![c].opened = g, ![c].current = g, ![c].stage[g] = "open"]
  /\ clients' = clients \cup {c}
  /\ UNCHANGED <<actorVars, ConnRest>>

\* the query endpoint for a client with a channel, run to completion as in
\* SubscribeAtomic
RegisterVia(c, qk) ==
  /\ NoMutationYet
  /\ c \in clients
  /\ qk \notin KeysOf(sessions, c)
  /\ LET qtype == IF QueryOf(qk).type = "count" THEN "count" ELSE "find"
         s1    == IF HasSession(sessions, c) THEN sessions
                  ELSE addSession(sessions, c, [clientId |-> c, queries |-> <<>>])
         dep   == DependencyObject(payloadConfig, qk)
     IN /\ sessions' = addQueryToSession(s1, c, [queryKey |-> qk, queryType |-> qtype])
        /\ dependencies' = addDependencies(dependencies, qk, dep)
        /\ reverseDependencies' =
             addReverseDependencies(reverseDependencies, qk, dep.dependencies)
  /\ conns' = [conns EXCEPT
        ![c].via = [conn |-> conns[c].current,
                    keys |-> IF conns[c].via.conn = conns[c].current
                             THEN conns[c].via.keys \cup {qk} ELSE {qk}],
        ![c].issued = conns[c].issued \cup {qk}]
  /\ UNCHANGED <<clients, ConnRest>>

\* endpoints.ts 286-290: the abort listener of request g up to its await;
\* clients.get(clientId) is looked up by clientId
AbortListener(c, g) ==
  /\ NoMutationYet
  /\ conns[c].stage[g] = "open"
  /\ conns' = IF c \in clients
              THEN [conns EXCEPT ![c].stage[g] = "pending",
                                 ![c].captured[g] = conns[c].current]
              ELSE [conns EXCEPT ![c].stage[g] = "done"]
  /\ UNCHANGED <<clients, actorVars, ConnRest>>

\* endpoints.ts 290: the actor runs deleteSession(clientId) for the listener
AbortListenerDelete(c, g) ==
  /\ NoMutationYet
  /\ conns[c].stage[g] = "pending"
  /\ sessions' = deleteSession(sessions, c)
  /\ conns' = [conns EXCEPT ![c].stage[g] = "deleted"]
  /\ UNCHANGED <<clients, dependencies, reverseDependencies, ConnRest>>

\* endpoints.ts 291-292: clients.delete(clientId); client.writer.close()
AbortListenerFinish(c, g) ==
  /\ NoMutationYet
  /\ conns[c].stage[g] = "deleted"
  /\ clients' = clients \ {c}
  /\ conns' = [conns EXCEPT ![c].stage[g] = "done", ![c].current = 0,
                            ![c].closedWriters = @ \cup {conns[c].captured[g]}]
  /\ UNCHANGED <<actorVars, ConnRest>>

NextReopen ==
  \/ \E c \in ReopenClients : OpenChannel(c)
  \/ \E c \in ReopenClients, qk \in ReopenKeys : RegisterVia(c, qk)
  \/ \E c \in ReopenClients, g \in ConnIds : AbortListener(c, g)
  \/ \E c \in ReopenClients, g \in ConnIds : AbortListenerDelete(c, g)
  \/ \E c \in ReopenClients, g \in ConnIds : AbortListenerFinish(c, g)
  \/ \E m \in MutIds, operation \in {"create", "update", "delete"}, id \in DocIds,
        data \in WritableDocs \cup {InitialStore["t1"]} :
          PayloadOperation(m, operation, id, data, 0)
  \/ \E m \in MutIds : afterOperation(m)
  \/ \E m \in MutIds : ServeInc(m, TRUE)
  \/ \E m \in MutIds, ok \in BOOLEAN : PopulateReturn(m, ok)
  \/ \E m \in MutIds : ServeCnt(m, TRUE)
  \/ \E m \in MutIds : ServeCrossKeys(m, TRUE)
  \/ \E m \in MutIds : ServeCrossSessions(m)
  \/ \E m \in MutIds : ServeCrossSend(m)
SpecReopen == InitFanout /\ [][NextReopen]_vars

\* C34: what a client caches for its findByID of t1, the fetched document
\* and then every update for the query handled in order, is at every moment
\* null or a document whose id is t1.
C34_ByIdCacheHoldsItsDocument ==
  \A c \in ClientIds :
    "qI" \in KeysOf(sessions, c) =>
      \A n \in 0..Len(UpdatesFor(channel[c], "qI")) :
        LET cached == FoldById(InitialStore["t1"],
                               SubSeq(UpdatesFor(channel[c], "qI"), 1, n))
        IN cached.x => cached.f["id"] = Str("t1")

\* C35: while the newest event-stream request of a clientId is open (its own
\* abort listener has not run), the channel registry holds its writer, the
\* writer is not closed, and the session holds every key registered through
\* it; the abort listeners of the older requests take none of that away.
C35_OldCloseSparesNewChannel ==
  \A c \in ClientIds :
    LET g == conns[c].opened
    IN (g >= 2 /\ conns[c].stage[g] = "open") =>
         /\ c \in clients
         /\ conns[c].current = g
         /\ g \notin conns[c].closedWriters
         /\ conns[c].via.conn = g => conns[c].via.keys \subseteq KeysOf(sessions, c)

\* C36: a client whose first channel was closed and that holds a new one
\* is sent, by every direct path that ran to its end, the delta the
\* classifier gives for each find query it issued over the first channel.
C36_DeltasResumeAfterReconnect ==
  \A m \in MutIds, c \in clients : \A qk \in conns[c].issued :
    ( /\ conns[c].opened >= 2
      /\ conns[c].stage[1] = "done"
      /\ conns[c].stage[conns[c].opened] = "open"
      /\ conns[c].current = conns[c].opened
      /\ conns[c].via.conn = 1
      /\ pubs[m].inc.pc = "done"
      /\ IsFind(qk) /\ QueryOf(qk).collection = muts[m].collection
      /\ ClassifyChange(muts[m].operation, muts[m].doc, muts[m].originalDoc,
                        QueryOf(qk).params) # NoChange )
    => Delivered(c, m, "incremental_updates", qk) # {}

\* C38: a View that the store holds and that has subscribed to its entry of
\* the shared cache is still called by that entry, whatever has cleared the
\* cache since; and every invalidate delta handled for the query of the
\* stored View that owns its subscription starts a re-fetch by that View.
C38_ViewsReactAfterClear ==
  /\ \A h \in Hashes :
       (viewStore[h] # 0 /\ cacheUnsubscribers[h] = viewStore[h])
         => viewStore[h] \in cacheSubscribers[h]
  /\ \A j \in 1..Len(invalLog) :
       (invalLog[j].owner # 0 /\ invalLog[j].owner = invalLog[j].view)
         => invalLog[j].view \in invalLog[j].refetchers

\* C37: a View that the store holds and that has no subscribers is
\* eventually removed from the store, unless a subscriber attaches to it
\* first.
C37_IdleViewDematerialized ==
  \A h \in Hashes :
    (viewStore[h] # 0 /\ wrappers[viewStore[h]].subscribers = {})
      ~> (viewStore[h] = 0 \/ wrappers[viewStore[h]].subscribers # {})

\* C39: whenever no registration is in progress, every queryKey a session
\* holds has a Dependency Entry and is in the reverse set of each of the
\* entry's dependencies.
C39_HeldKeysIndexed ==
  RegsQuiet =>
    \A c \in ClientIds : \A qk \in KeysOf(sessions, c) :
      /\ dependencies[qk] # NoDep
      /\ \A col \in dependencies[qk].dependencies :
           qk \in Range(getQueriesDependingOn(reverseDependencies, col))

\* two sessions held the same queryKey, one of them was removed by the
\* abort listener of its channel, and the other still holds the key
C39_SharedKeySurvivesRemoval ==
  /\ RegsQuiet
  /\ \E c \in ClientIds, d \in ClientIds, qk \in RegKeys :
       /\ c # d
       /\ \A r \in RegIds : regs[r].pc = "done" /\ regs[r].queryKey = qk
       /\ {regs[r].clientId : r \in RegIds} = {c, d}
       /\ <<c, "closed">> \in hist /\ <<c, "raced">> \notin hist
       /\ ~HasSession(sessions, c)
       /\ qk \in KeysOf(sessions, d)

\* the limit of the folded query: the initial fetch returned at most that
\* many documents
FoldLimit == MaxFetched

\* C40: the docs array cached for a find whose query has limit FoldLimit
\* holds at most FoldLimit documents after every delta folded into it.
C40_LimitKept ==
  \A i \in 1..Len(foldHist) : Len(foldHist[i]) <= FoldLimit
====
